---- MODULE Spec2Model ----
(***************************************************************************)
(* Incremental corpus synchronisation of llm_lawbot:                       *)
(* scripts/check_updates.py (manifest, change detection, download, hash    *)
(* verification, re-embedding, counters).                                  *)
(***************************************************************************)
EXTENDS Integers, Sequences, FiniteSets, TLC

\* ------------------------------------------------------------------ bounds
\* number of sync runs (invocations of main) one behaviour holds
MaxRuns == 2
\* number of changes the environment makes in one behaviour: the remote corpus
\* changes a document or the listing, the operator removes a local file, a
\* front-end user deletes a document
\* (changes after the last run are not followed: no run would see them)
MaxEnvChanges == 1

\* ---------------------------------------------------------------- universe
\* A document URL is its path, segment by segment.
URLs == { <<"docs", "x.pdf">>, <<"docs", "guide.pdf">> }

\* what a server sends for ETag, Last-Modified and Content-Length, as head_meta
\* returns them ("" and 0: the header is absent): a document served with its
\* validators, served again under a new ETag, or served without any of the three
HeaderSets == { [etag |-> "abc", last_modified |-> "Mon", content_length |-> 10],
                [etag |-> "xyz", last_modified |-> "Mon", content_length |-> 10],
                [etag |-> "", last_modified |-> "", content_length |-> 0] }
\* document bodies; "blank" is a PDF without extractable text
Bodies == {"c1", "c2", "blank"}

Remotes == { [etag |-> h.etag, last_modified |-> h.last_modified,
              content_length |-> h.content_length, body |-> b] : h \in HeaderSets, b \in Bodies }

\* local file names and what a file holds: NoFile (no such file), a body, or
\* "part", the bytes a download interrupted mid-stream leaves behind
FileNames == { <<"x.pdf">>, <<"RS12", "_", "guide.pdf">> }
NoFile == "none"

\* the listing page's anchor text of each URL
AnchorText(url) == IF url = <<"docs", "x.pdf">> THEN "" ELSE "RS 12 guide"

\* all duplicate-free sequences of links over the URLs (parse_pdf_links de-duplicates)
RECURSIVE SeqsNoDup(_)
SeqsNoDup(S) ==
    {<<>>} \cup UNION { { <<x>> \o s : s \in SeqsNoDup(S \ {x}) } : x \in S }

Listings == { [k \in 1..Len(s) |-> [url |-> s[k], text |-> AnchorText(s[k])]] : s \in SeqsNoDup(URLs) }

\* ------------------------------------------------------------------- state
VARIABLES
    remote,        \* the remote corpus: URL -> headers and body served
    listing,       \* the links of the remote listing page, as parse_pdf_links returns them
    nchanges,      \* changes the environment has made so far
    mfile,         \* data/manifest.json: <<>> (no file) or <<text>>, the text a
                   \* sequence of JSON members (in SpecSave, while save_manifest
                   \* has the file open: its content before that)
    files,         \* data/pdfs: local file name -> bytes stored, or NoFile
    run,           \* runs started so far
    now,           \* the clock, as time.strftime reads it
    pc,            \* position of main: "idle", an item state, "AllItems", "done", "aborted"
    err,           \* what aborted the run: "" or "listing", "hash", "chunk", "index", "killed"
    force,         \* args.force
    links,         \* the listing as this run parsed it
    i,             \* index in links of the item being processed (1-based)
    manifest,      \* the manifest loaded by this run; manifest.items is `items`
    meta,          \* (etag, lm, clen) as head_meta returned them
    record_old,    \* items.get(url, {}): <<>> or <<record>>
    need,          \* decide_change's answer for the item
    new_sha,       \* sha256 of the downloaded file, <<>> before it is computed
    added, updated, skipped, failed,   \* the four counters
    addLog,        \* add_documents calls of this run, in order
    getLog,        \* URLs for which download issued its GET in this run, in order
    headFault,     \* head_meta swallowed an exception for the current item
    lastSeen,      \* URL -> <<>> or <<meta>>: what head_meta last returned for it
    sameSeen,      \* every head_meta result of this run equals the one before it
    sameMeta,      \* head_meta's result for the current item equals the one before it
    itemsAtStart,  \* manifest.items as loaded at the start of this run
    envChanged,    \* the remote or the local files changed since the last run started
    prevRun,       \* how the previous run ended
    fnIn, fnOut,   \* input and result of a function applied on its own
    mtext,         \* the text save_manifest has written so far to the file it opened
    spc,           \* position of save_manifest: "idle" (not running), "stamped", "open"
    interrupted,   \* <<>>, or <<the run killed between two items: its number, its
                   \* --force flag and the URLs it had added or updated>>
    crawl,         \* <<>>, or <<the crawler's command in progress: its --force flag,
                   \* its links, the link it is at, and where it is with that link>>
    peer,          \* <<>>, or <<the second main of check_updates: its locals>>
    written,       \* local file name -> the parts a file being written holds
    deleting       \* <<>>, or <<the last DELETE request of the front end that read
                   \* the manifest: the copy it changed, the URLs it removed, where
                   \* it is ("read", "open", "answered"), and the run of main it
                   \* opened and wrote the file in before that run's save (else 0)>>

vars == << remote, listing, nchanges, mfile, files, run, now, pc, err, force, links,
           i, manifest, meta, record_old, need, new_sha, added, updated, skipped, failed,
           addLog, getLog, headFault, lastSeen, sameSeen, sameMeta, itemsAtStart, envChanged,
           prevRun, fnIn, fnOut, mtext, spc, interrupted, deleting, crawl, peer, written >>

envVars == << remote, listing, nchanges >>
seenVars == << lastSeen, sameSeen >>
counters == << added, updated, skipped, failed >>
itemLocals == << meta, record_old, need, new_sha, headFault, sameMeta >>
saveVars == << mtext, spc, interrupted, deleting, crawl, peer, written >>
\* the variables of the operations specified on their own
fnVars == << fnIn, fnOut, saveVars >>

\* ------------------------------------------------------------ pure helpers
MAIN_URL == "recognised-standards"

NoMeta == [etag |-> "", last_modified |-> "", content_length |-> 0]

\* hashlib.sha256 of a file's bytes: a digest determined by the content
sha256_file(content) == <<"sha256", content>>

\* os.path.basename(urlparse(url).path)
guess_filename_from_url(url) == url[Len(url)]

\* re.search(r"(RS|rs)\s*0?(\d+)", text): the RS number a text carries, else ""
detect_rs_number(text) ==
    IF text \in {"RS 12 guide", "rs12.pdf"} THEN "RS12" ELSE ""

\* base.lower().startswith(rs.lower())
StartsWithRs(base, rs) == base = "rs12.pdf" /\ rs = "RS12"

\* build_local_name: the local file name, as the pieces joined
build_local_name(url, text) ==
    LET base == guess_filename_from_url(url)
        rs   == IF detect_rs_number(text) # "" THEN detect_rs_number(text)
                ELSE detect_rs_number(base)
    IN  IF rs # "" /\ ~StartsWithRs(base, rs) THEN <<rs, "_", base>> ELSE <<base>>

\* decide_change with the size test taken after a match of last_modified only
decide_change_LenUnderLm(old, new_etag, new_lm, new_len, frc) ==
    IF frc \/ old = <<>> THEN TRUE
    ELSE IF new_etag # "" /\ new_etag # old[1].etag THEN TRUE
    ELSE IF new_lm # "" /\ new_lm # old[1].last_modified THEN TRUE
    ELSE IF new_lm # "" /\ new_len # 0 /\ new_len # old[1].content_length THEN TRUE
    ELSE FALSE

\* decide_change(old, new_etag, new_lm, new_len, force); old is <<>> or <<record>>
decide_change(old, new_etag, new_lm, new_len, frc) ==
    IF frc \/ old = <<>> THEN TRUE
    ELSE IF new_etag # "" /\ new_etag # old[1].etag THEN TRUE
    ELSE IF new_lm # "" /\ new_lm # old[1].last_modified THEN TRUE
    ELSE IF new_len # 0 /\ new_len # old[1].content_length THEN TRUE
    ELSE FALSE

\* the manifest's items: URL -> <<>> (no record) or <<record>>
NoItems == [u \in URLs |-> <<>>]

\* the empty skeleton, line 58
EmptyManifest == [source_url |-> MAIN_URL, checked_at |-> 0, items |-> NoItems]

\* json.dump(m, f, indent=2): the text of a manifest, member by member
JsonDump(m) ==
    << <<"source_url", m.source_url>>, <<"checked_at", m.checked_at>>,
       <<"items", m.items>>, <<"}", "">> >>

\* json.load(f): <<the manifest>>, or <<>> when the text does not parse
JsonLoad(text) ==
    IF Len(text) = Len(JsonDump(EmptyManifest)) /\ text[Len(text)][1] = "}"
    THEN << [source_url |-> text[1][2], checked_at |-> text[2][2], items |-> text[3][2]] >>
    ELSE <<>>

\* load_manifest reading what members a broken text still holds
LoadFile_Lenient(file) ==
    IF file # <<>> /\ Len(file[1]) >= Len(JsonDump(EmptyManifest)) - 1
    THEN [source_url |-> file[1][1][2], checked_at |-> file[1][2][2], items |-> file[1][3][2]]
    ELSE EmptyManifest

\* load_manifest on a file: its content, or the empty skeleton when there is
\* no file or json.load raises
LoadFile(file) ==
    IF file # <<>> /\ JsonLoad(file[1]) # <<>> THEN JsonLoad(file[1])[1] ELSE EmptyManifest

\* load_manifest, lines 51-58
load_manifest == LoadFile(mfile)

\* the number of characters of a string given by its pieces
RECURSIVE Chars(_)
Chars(pieces) == IF pieces = <<>> THEN 0 ELSE Len(Head(pieces)) + Chars(Tail(pieces))

\* the number of digits json.dump writes for a content_length
Digits(n) == IF n < 10 THEN 1 ELSE 2

\* the characters json.dump(.., indent=2) writes for one entry of items: the
\* key, the six members of the record (sha256 is 64 characters, updated_at
\* 19), the layout around them and the comma or, behind the last entry,
\* the line break that follows
EntrySize(u, r) ==
    236 + (Chars(u) + Len(u)) + Chars(r.filename) + Len(r.etag) + Len(r.last_modified)
        + Digits(r.content_length)

RECURSIVE ItemsSize(_, _)
ItemsSize(items, us) ==
    IF us = {} THEN 0
    ELSE LET u == CHOOSE v \in us : TRUE
         IN  (IF items[u] = <<>> THEN 0 ELSE EntrySize(u, items[u][1]))
             + ItemsSize(items, us \ {u})

\* the size of a text of the manifest file, member by member; a member
\* "tail" is what is left of a longer text behind a shorter one written over it
RECURSIVE TextSize(_)
TextSize(text) ==
    IF text = <<>> THEN 0
    ELSE LET m == Head(text)
         IN  (CASE m[1] = "source_url" -> 22 + Len(m[2])
                [] m[1] = "checked_at" -> 39
                [] m[1] = "items"      -> IF m[2] = NoItems THEN 14
                                          ELSE 16 + ItemsSize(m[2], URLs)
                [] m[1] = "tail"       -> m[2]
                [] OTHER               -> 1)
             + TextSize(Tail(text))

\* a file opened with mode "w" before another writer wrote `old` to it, and
\* written from its own offset 0 afterwards: the new text, followed by what
\* of the old text lies behind its end
Overwrite(old, new) ==
    IF TextSize(new) >= TextSize(old) THEN new
    ELSE new \o << <<"tail", TextSize(old) - TextSize(new)>> >>

\* the current item and its local file name
CurUrl == links[i].url
CurFile == build_local_name(links[i].url, links[i].text)

\* os.path.exists(local_path)
Exists(f) == files[f] # NoFile

\* number of documents make_docs_for_store yields for a file's bytes
NumDocs(content) == IF content = "blank" THEN 0 ELSE IF content = "c1" THEN 2 ELSE 1

\* ------------------------------------------------------ the HTTP responses
\* A response is its status and the three headers as sent; status 0 stands for
\* the request raising (timeout, connection error). "-" is an absent header.
Absent == "-"
NoRawHeaders == [ETag |-> Absent, LastModified |-> Absent, ContentLength |-> Absent]
RaiseResp == [status |-> 0, headers |-> NoRawHeaders]

\* the headers a server sends for a document: the ETag quoted, the length in digits
RawHeaders(r) ==
    [ETag |-> IF r.etag = "" THEN Absent ELSE IF r.etag = "abc" THEN "\"abc\"" ELSE "\"xyz\"",
     LastModified |-> IF r.last_modified = "" THEN Absent ELSE r.last_modified,
     ContentLength |-> IF r.content_length = 0 THEN Absent ELSE "10"]

\* what a HEAD or GET of url can be answered with
ResponsesFor(url) ==
    { RaiseResp,
      [status |-> 200, headers |-> RawHeaders(remote[url])],
      [status |-> 404, headers |-> NoRawHeaders] }

\* r.headers.get("ETag", "").strip('"').strip()
StripETag(raw) ==
    IF raw = Absent THEN "" ELSE IF raw = "\"abc\"" THEN "abc" ELSE IF raw = "\"xyz\"" THEN "xyz" ELSE raw

\* int(r.headers.get("Content-Length", "0")), 0 when int() raises
ParseLength(raw) == IF raw = "10" THEN 10 ELSE 0

\* head_meta reading the HEAD response's headers whatever its status
head_meta_NoFallback(headResp, getResp) ==
    IF headResp.status = 0 THEN NoMeta
    ELSE [etag |-> StripETag(headResp.headers.ETag),
          last_modified |-> IF headResp.headers.LastModified = Absent THEN ""
                            ELSE headResp.headers.LastModified,
          content_length |-> ParseLength(headResp.headers.ContentLength)]

\* head_meta: HEAD, then GET when HEAD is not 200; any exception gives ("", "", 0)
head_meta(headResp, getResp) ==
    IF headResp.status = 0 THEN NoMeta
    ELSE LET r == IF headResp.status # 200 THEN getResp ELSE headResp
         IN  IF r.status = 0 THEN NoMeta
             ELSE [etag |-> StripETag(r.headers.ETag),
                   last_modified |-> IF r.headers.LastModified = Absent THEN "" ELSE r.headers.LastModified,
                   content_length |-> ParseLength(r.headers.ContentLength)]

\* the requests head_meta sends, lines 72-75
head_meta_requests(headResp) ==
    IF headResp.status \notin {0, 200} THEN <<"HEAD", "GET">> ELSE <<"HEAD">>

\* whether head_meta's result came from its except branch
HeadRaised(headResp, getResp) ==
    headResp.status = 0 \/ (headResp.status # 200 /\ getResp.status = 0)

ItemStates == {"Listed", "MetadataChecked", "Fetching", "Fetched", "Chunking", "Indexed",
               "Skipped", "Failed", "VerifiedUnchanged", "ManifestUpdated"}
TerminalStates == {"Skipped", "Failed", "VerifiedUnchanged", "ManifestUpdated"}
RunEnded == {"done", "aborted"}

\* lines 181-189 without the new headers: only the time is refreshed
RefreshedRecord_KeepHeaders(old, fname, m, sha, t) ==
    [old EXCEPT !.filename = fname, !.sha256 = sha, !.updated_at = t]

\* main, lines 181-189: the old record with the new headers
RefreshedRecord(old, fname, m, sha, t) ==
    [old EXCEPT !.filename = fname, !.etag = m.etag, !.last_modified = m.last_modified,
                !.content_length = m.content_length, !.sha256 = sha, !.updated_at = t]

\* lines 197-204 with the observed headers left out of the record
NewRecord_NoHeaders(fname, m, sha, t) ==
    [filename |-> fname, etag |-> "", last_modified |-> "",
     content_length |-> 0, sha256 |-> sha, updated_at |-> t]

\* main, lines 197-204: the record of a new or changed document
NewRecord(fname, m, sha, t) ==
    [filename |-> fname, etag |-> m.etag, last_modified |-> m.last_modified,
     content_length |-> m.content_length, sha256 |-> sha, updated_at |-> t]

\* ------------------------------------------------------------------- Init
\* Every document is served with the same headers and body until the remote
\* changes. The installation is fresh (no manifest, no local file), or an
\* earlier run has synchronised every document as first served.
InitRemote == [etag |-> "abc", last_modified |-> "Mon", content_length |-> 10, body |-> "c1"]

InitMeta == [etag |-> InitRemote.etag, last_modified |-> InitRemote.last_modified,
             content_length |-> InitRemote.content_length]

SyncedItems ==
    [u \in URLs |-> << NewRecord(build_local_name(u, AnchorText(u)), InitMeta,
                                 sha256_file(InitRemote.body), 0) >>]

NoRun == [ended |-> "none", clean |-> FALSE, indexFailed |-> <<>>, detected |-> FALSE,
          quiet |-> FALSE]

\* the manifest file and the local files of a fresh and of a synchronised
\* installation
InitInstall ==
    \/ /\ mfile = <<>>
       /\ files = [f \in FileNames |-> NoFile]
    \/ /\ mfile = << JsonDump([source_url |-> MAIN_URL, checked_at |-> 0, items |-> SyncedItems]) >>
       /\ files = [f \in FileNames |-> InitRemote.body]

\* the remote corpus with the listing page ls, and the process before its
\* first run
InitProcessOn(ls) ==
    /\ remote = [u \in URLs |-> InitRemote]
    /\ listing = ls
    /\ nchanges = 0
    /\ run = 0
    /\ now = 0
    /\ pc = "idle"
    /\ err = ""
    /\ force = FALSE
    /\ links = <<>>
    /\ i = 1
    /\ manifest = [source_url |-> MAIN_URL, checked_at |-> 0, items |-> NoItems]
    /\ meta = NoMeta
    /\ record_old = <<>>
    /\ need = FALSE
    /\ new_sha = <<>>
    /\ added = 0 /\ updated = 0 /\ skipped = 0 /\ failed = 0
    /\ addLog = <<>>
    /\ getLog = <<>>
    /\ headFault = FALSE
    /\ lastSeen = NoItems
    /\ sameSeen = TRUE
    /\ sameMeta = FALSE
    /\ itemsAtStart = NoItems
    /\ envChanged = FALSE
    /\ prevRun = NoRun

\* the listing page links every document
InitProcess ==
    \E ls \in Listings :
        Len(ls) = Cardinality(URLs) /\ ls[1].url = <<"docs", "x.pdf">> /\ InitProcessOn(ls)

InitMain == InitInstall /\ InitProcess

InitSaveIdle ==
    /\ mtext = <<>> /\ spc = "idle" /\ interrupted = <<>> /\ deleting = <<>> /\ crawl = <<>>
    /\ peer = <<>> /\ written = [f \in FileNames |-> << "", "" >>]

Init == InitMain /\ fnIn = <<>> /\ fnOut = <<>> /\ InitSaveIdle

\* ------------------------------------------------------------ environment
\* The remote corpus changes a document's headers or body, between runs.
RemoteChange(u, r) ==
    /\ pc = "idle"
    /\ run < MaxRuns
    /\ nchanges < MaxEnvChanges
    /\ r # remote[u]
    /\ remote' = [remote EXCEPT ![u] = r]
    /\ nchanges' = nchanges + 1
    /\ envChanged' = TRUE
    /\ UNCHANGED << listing, mfile, files, run, now, pc, err, force, links, i, manifest,
                    itemLocals, counters, addLog, getLog, seenVars, itemsAtStart, prevRun, fnVars >>

\* The listing page changes: links appear, disappear or move, between runs.
ListingChange(ls) ==
    /\ pc = "idle"
    /\ run < MaxRuns
    /\ nchanges < MaxEnvChanges
    /\ ls # listing
    /\ listing' = ls
    /\ nchanges' = nchanges + 1
    /\ envChanged' = TRUE
    /\ UNCHANGED << remote, mfile, files, run, now, pc, err, force, links, i, manifest,
                    itemLocals, counters, addLog, getLog, seenVars, itemsAtStart, prevRun, fnVars >>

\* The operator removes a local PDF, between runs.
LocalDelete(f) ==
    /\ pc = "idle"
    /\ run < MaxRuns
    /\ nchanges < MaxEnvChanges
    /\ Exists(f)
    /\ files' = [files EXCEPT ![f] = NoFile]
    /\ nchanges' = nchanges + 1
    /\ envChanged' = TRUE
    /\ UNCHANGED << remote, listing, mfile, run, now, pc, err, force, links, i, manifest,
                    itemLocals, counters, addLog, getLog, seenVars, itemsAtStart, prevRun, fnVars >>

\* ------------------------------------------------------------------- main
\* what a run leaves for the next one to compare with
\* ended: how main ended; clean: it ended with failed = 0; indexFailed: the URL
\* whose add_documents call raised, if one did; detected: that item was fetched
\* because decide_change answered true in a run without --force; quiet: nothing
\* changed in the environment between that run and the next (set as the next starts)
RunSummary ==
    [ended |-> pc, clean |-> (failed = 0),
     indexFailed |-> IF err = "index" THEN CurUrl ELSE <<>>,
     detected |-> (err = "index" /\ need /\ ~force),
     quiet |-> FALSE]

\* main, lines 134-151: parse the arguments, load the manifest, fetch and parse
\* the listing, zero the counters. listingOk = FALSE: the listing request raises.
StartRun(frc, listingOk) ==
    /\ pc = "idle"
    /\ run < MaxRuns
    /\ run' = run + 1
    /\ now' = now + 1
    /\ force' = frc
    /\ manifest' = load_manifest
    /\ itemsAtStart' = load_manifest.items
    /\ prevRun' = [prevRun EXCEPT !.quiet = ~envChanged]
    /\ envChanged' = FALSE
    /\ added' = 0 /\ updated' = 0 /\ skipped' = 0 /\ failed' = 0
    /\ addLog' = <<>> /\ getLog' = <<>>
    /\ sameSeen' = TRUE
    /\ lastSeen' = lastSeen
    /\ i' = 1
    /\ meta' = NoMeta /\ record_old' = <<>> /\ need' = FALSE /\ new_sha' = <<>>
    /\ headFault' = FALSE /\ sameMeta' = FALSE
    /\ IF listingOk
         THEN /\ links' = listing
              /\ err' = ""
              /\ pc' = IF listing = <<>> THEN "AllItems" ELSE "Listed"
         ELSE /\ links' = <<>>
              /\ err' = "listing"
              /\ pc' = "aborted"
    /\ UNCHANGED << envVars, mfile, files, fnVars >>

\* main, lines 155-161: head_meta, items.get, decide_change, build_local_name
HeadMeta(headResp, getResp) ==
    /\ pc = "Listed"
    /\ LET m == head_meta(headResp, getResp)
           old == manifest.items[CurUrl]
       IN  /\ meta' = m
           /\ record_old' = old
           /\ need' = decide_change(old, m.etag, m.last_modified, m.content_length, force)
           /\ lastSeen' = [lastSeen EXCEPT ![CurUrl] = <<m>>]
           /\ sameSeen' = (sameSeen /\ lastSeen[CurUrl] = <<m>>)
           /\ sameMeta' = (lastSeen[CurUrl] = <<m>>)
    /\ headFault' = HeadRaised(headResp, getResp)
    /\ pc' = "MetadataChecked"
    /\ UNCHANGED << envVars, mfile, files, run, now, err, force, links, i, manifest, new_sha,
                    counters, addLog, getLog, itemsAtStart, envChanged, prevRun, fnVars >>

\* line 163 without the test of the local file
ShouldSkip_NoExists(nd, exists) == ~nd

\* line 163 never taken: every item is downloaded
ShouldSkip_Never(nd, exists) == FALSE

\* main, line 163: the item is skipped without a download
ShouldSkip(nd, exists) == ~nd /\ exists

\* main, lines 163-167
SkipOrFetch ==
    /\ pc = "MetadataChecked"
    /\ IF ShouldSkip(need, Exists(CurFile))
         THEN /\ skipped' = skipped + 1
              /\ pc' = "Skipped"
         ELSE /\ skipped' = skipped
              /\ pc' = "Fetching"
    /\ UNCHANGED << envVars, mfile, files, run, now, err, force, links, i, manifest, itemLocals,
                    added, updated, failed, addLog, getLog, seenVars, itemsAtStart, envChanged,
                    prevRun, fnVars >>

\* download: what the local file holds after a streamed GET that ends "ok",
\* in an "error" before the file is opened (connection error, status not 2xx,
\* the directory or the file cannot be created), or "truncated" mid-stream
download(content, body, outcome) ==
    IF outcome = "ok" THEN body
    ELSE IF outcome = "truncated" THEN "part"
    ELSE content

\* download_pdf of app/crawler_qld.py, lines 95-140, for the links ls in
\* turn: the same directory and the same file names as check_updates (the
\* names of the model hold nothing sanitize_filename would replace). A file
\* that exists is skipped unless frc; o gives how the GET of each file ends.
RECURSIVE CrawlFiles(_, _, _, _)
CrawlFiles(fs, ls, frc, o) ==
    IF ls = <<>> THEN fs
    ELSE LET f == build_local_name(Head(ls).url, Head(ls).text)
         IN  CrawlFiles(IF fs[f] # NoFile /\ ~frc THEN fs
                        ELSE [fs EXCEPT ![f] = download(fs[f], remote[Head(ls).url].body, o[f])],
                        Tail(ls), frc, o)

\* main of app/crawler_qld.py, lines 142-172, run between two runs of
\* check_updates: it downloads what the listing page links and neither reads
\* nor writes the manifest. (When http_get raises nothing is changed.)
CrawlerMain(frc, o) ==
    /\ pc = "idle"
    /\ run < MaxRuns
    /\ nchanges < MaxEnvChanges
    /\ files' = CrawlFiles(files, listing, frc, o)
    /\ nchanges' = nchanges + 1
    /\ envChanged' = TRUE
    /\ UNCHANGED << remote, listing, mfile, run, now, pc, err, force, links, i, manifest,
                    itemLocals, counters, addLog, getLog, seenVars, itemsAtStart, prevRun, fnVars >>

\* lines 169-173 with the failure left uncounted
Download_FailureUncounted(outcome) ==
    /\ pc = "Fetching"
    /\ getLog' = Append(getLog, CurUrl)
    /\ files' = [files EXCEPT ![CurFile] = download(files[CurFile], remote[CurUrl].body, outcome)]
    /\ failed' = failed
    /\ pc' = IF outcome = "ok" THEN "Fetched" ELSE "Failed"
    /\ UNCHANGED << envVars, mfile, run, now, err, force, links, i, manifest, itemLocals,
                    added, updated, skipped, addLog, seenVars, itemsAtStart, envChanged,
                    prevRun, fnVars >>

\* main, lines 169-173
Download(outcome) ==
    /\ pc = "Fetching"
    /\ getLog' = Append(getLog, CurUrl)
    /\ files' = [files EXCEPT ![CurFile] = download(files[CurFile], remote[CurUrl].body, outcome)]
    /\ IF outcome = "ok"
         THEN /\ failed' = failed
              /\ pc' = "Fetched"
         ELSE /\ failed' = failed + 1
              /\ pc' = "Failed"
    /\ UNCHANGED << envVars, mfile, run, now, err, force, links, i, manifest, itemLocals,
                    added, updated, skipped, addLog, seenVars, itemsAtStart, envChanged,
                    prevRun, fnVars >>

\* line 177 without the test of args.force
UnchangedBySha_ForceIgnored(old, frc, sha) == old # <<>> /\ sha = old[1].sha256

\* main, line 177: the download was a false positive
UnchangedBySha(old, frc, sha) == old # <<>> /\ ~frc /\ sha = old[1].sha256

\* main, lines 175-191. hashOk = FALSE: sha256_file raises (the file cannot be read)
Verify(hashOk) ==
    /\ pc = "Fetched"
    /\ IF ~hashOk
         THEN /\ pc' = "aborted"
              /\ err' = "hash"
              /\ UNCHANGED << new_sha, skipped, manifest >>
         ELSE LET sha == sha256_file(files[CurFile])
              IN  /\ new_sha' = sha
                  /\ err' = err
                  /\ IF UnchangedBySha(record_old, force, sha)
                       THEN /\ skipped' = skipped + 1
                            /\ manifest' = [manifest EXCEPT !.items[CurUrl] =
                                   <<RefreshedRecord(record_old[1], CurFile, meta, sha, now)>>]
                            /\ pc' = "VerifiedUnchanged"
                       ELSE /\ skipped' = skipped
                            /\ manifest' = manifest
                            /\ pc' = "Chunking"
    /\ UNCHANGED << envVars, mfile, files, run, now, force, links, i, meta, record_old, need,
                    headFault, sameMeta, added, updated, failed, addLog, getLog, seenVars, itemsAtStart,
                    envChanged, prevRun, fnVars >>

\* line 194 taken after lines 196-205: the record is written, then reembed_pdf runs
Reembed_AfterRecord(outcome) ==
    /\ pc = "Chunking"
    /\ LET n == NumDocs(files[CurFile])
       IN  /\ outcome = "index_error" => n > 0
           /\ IF outcome = "ok"
                THEN /\ addLog' = IF n > 0
                                    THEN Append(addLog, [url |-> CurUrl, filename |-> CurFile, docs |-> n])
                                    ELSE addLog
                     /\ pc' = "Indexed"
                     /\ err' = err
                ELSE /\ addLog' = addLog
                     /\ pc' = "aborted"
                     /\ err' = IF outcome = "chunk_error" THEN "chunk" ELSE "index"
    /\ manifest' = [manifest EXCEPT !.items[CurUrl] = <<NewRecord(CurFile, meta, new_sha, now)>>]
    /\ UNCHANGED << envVars, mfile, files, run, now, force, links, i, itemLocals,
                    counters, getLog, seenVars, itemsAtStart, envChanged, prevRun, fnVars >>

\* reembed_pdf without the test `if docs:`: an empty batch is pushed as well
Reembed_EmptyPushed(outcome) ==
    /\ pc = "Chunking"
    /\ LET n == NumDocs(files[CurFile])
       IN  /\ outcome = "index_error" => n > 0
           /\ IF outcome = "ok"
                THEN /\ addLog' = Append(addLog, [url |-> CurUrl, filename |-> CurFile, docs |-> n])
                     /\ pc' = "Indexed"
                     /\ err' = err
                ELSE /\ addLog' = addLog
                     /\ pc' = "aborted"
                     /\ err' = IF outcome = "chunk_error" THEN "chunk" ELSE "index"
    /\ UNCHANGED << envVars, mfile, files, run, now, force, links, i, manifest, itemLocals,
                    counters, getLog, seenVars, itemsAtStart, envChanged, prevRun, fnVars >>

\* reembed_pdf, lines 125-132, called at line 194. outcome "chunk_error":
\* make_docs_for_store raises; "index_error": add_documents raises. Neither is
\* caught by reembed_pdf or by main.
Reembed(outcome) ==
    /\ pc = "Chunking"
    /\ LET n == NumDocs(files[CurFile])
       IN  /\ outcome = "index_error" => n > 0
           /\ IF outcome = "ok"
                THEN /\ addLog' = IF n > 0
                                    THEN Append(addLog, [url |-> CurUrl, filename |-> CurFile, docs |-> n])
                                    ELSE addLog
                     /\ pc' = "Indexed"
                     /\ err' = err
                ELSE /\ addLog' = addLog
                     /\ pc' = "aborted"
                     /\ err' = IF outcome = "chunk_error" THEN "chunk" ELSE "index"
    /\ UNCHANGED << envVars, mfile, files, run, now, force, links, i, manifest, itemLocals,
                    counters, getLog, seenVars, itemsAtStart, envChanged, prevRun, fnVars >>

\* lines 196-210 with the two counters exchanged
Record_CountersExchanged ==
    /\ pc = "Indexed"
    /\ manifest' = [manifest EXCEPT !.items[CurUrl] = <<NewRecord(CurFile, meta, new_sha, now)>>]
    /\ IF record_old # <<>>
         THEN added' = added + 1 /\ updated' = updated
         ELSE updated' = updated + 1 /\ added' = added
    /\ pc' = "ManifestUpdated"
    /\ UNCHANGED << envVars, mfile, files, run, now, err, force, links, i, itemLocals,
                    skipped, failed, addLog, getLog, seenVars, itemsAtStart, envChanged,
                    prevRun, fnVars >>

\* main, lines 196-210
Record ==
    /\ pc = "Indexed"
    /\ manifest' = [manifest EXCEPT !.items[CurUrl] = <<NewRecord(CurFile, meta, new_sha, now)>>]
    /\ IF record_old # <<>>
         THEN updated' = updated + 1 /\ added' = added
         ELSE added' = added + 1 /\ updated' = updated
    /\ pc' = "ManifestUpdated"
    /\ UNCHANGED << envVars, mfile, files, run, now, err, force, links, i, itemLocals,
                    skipped, failed, addLog, getLog, seenVars, itemsAtStart, envChanged,
                    prevRun, fnVars >>

\* the for loop, line 153: `continue` or the end of the body takes the next link
NextItem ==
    /\ pc \in TerminalStates
    /\ i' = i + 1
    /\ pc' = IF i < Len(links) THEN "Listed" ELSE "AllItems"
    /\ meta' = NoMeta /\ record_old' = <<>> /\ need' = FALSE /\ new_sha' = <<>>
    /\ headFault' = FALSE /\ sameMeta' = FALSE
    /\ UNCHANGED << envVars, mfile, files, run, now, err, force, links, manifest,
                    counters, addLog, getLog, seenVars, itemsAtStart, envChanged, prevRun, fnVars >>

\* lines 212-213 with the records of URLs absent from the listing dropped
SaveManifest_Pruning ==
    /\ pc = "AllItems"
    /\ manifest' = [manifest EXCEPT !.checked_at = now,
                                    !.items = [u \in URLs |->
                                        IF \E k \in 1..Len(links) : links[k].url = u
                                        THEN manifest.items[u] ELSE <<>>]]
    /\ mfile' = << JsonDump(manifest') >>
    /\ pc' = "done"
    /\ UNCHANGED << envVars, files, run, now, err, force, links, i, itemLocals,
                    counters, addLog, getLog, seenVars, itemsAtStart, envChanged, prevRun, fnVars >>

\* save_manifest, lines 60-64, and the report, lines 212-215
SaveManifest ==
    /\ pc = "AllItems"
    /\ manifest' = [manifest EXCEPT !.checked_at = now]
    /\ mfile' = << JsonDump(manifest') >>
    /\ pc' = "done"
    /\ UNCHANGED << envVars, files, run, now, err, force, links, i, itemLocals,
                    counters, addLog, getLog, seenVars, itemsAtStart, envChanged, prevRun, fnVars >>

\* The process ends (main returns, or the exception leaves it): its variables
\* are gone; what the next run can be compared with is kept in prevRun.
Exit ==
    /\ pc \in RunEnded
    /\ pc' = "idle"
    /\ prevRun' = RunSummary
    /\ err' = ""
    /\ force' = FALSE
    /\ links' = <<>>
    /\ i' = 1
    /\ manifest' = [source_url |-> MAIN_URL, checked_at |-> 0, items |-> NoItems]
    /\ meta' = NoMeta /\ record_old' = <<>> /\ need' = FALSE /\ new_sha' = <<>>
    /\ headFault' = FALSE /\ sameMeta' = FALSE
    /\ added' = 0 /\ updated' = 0 /\ skipped' = 0 /\ failed' = 0
    /\ addLog' = <<>> /\ getLog' = <<>>
    /\ sameSeen' = TRUE
    /\ itemsAtStart' = NoItems
    /\ UNCHANGED << envVars, mfile, files, run, now, lastSeen, envChanged, fnVars >>

\* every step of the environment and of main but the saving of the manifest
MainSteps ==
    \/ \E u \in URLs, r \in Remotes : RemoteChange(u, r)
    \/ \E f \in FileNames : LocalDelete(f)
    \/ \E frc \in BOOLEAN, o \in [FileNames -> {"ok", "error", "truncated"}] : CrawlerMain(frc, o)
    \/ \E ls \in Listings : ListingChange(ls)
    \/ \E frc \in BOOLEAN, ok \in BOOLEAN : StartRun(frc, ok)
    \/ pc = "Listed" /\ \E h \in ResponsesFor(CurUrl), g \in ResponsesFor(CurUrl) : HeadMeta(h, g)
    \/ SkipOrFetch
    \/ \E o \in {"ok", "error", "truncated"} : Download(o)
    \/ \E ok \in BOOLEAN : Verify(ok)
    \/ \E o \in {"ok", "chunk_error", "index_error"} : Reembed(o)
    \/ Record
    \/ NextItem
    \/ Exit

Next ==
    \/ MainSteps
    \/ SaveManifest

Spec == Init /\ [][Next]_vars

\* ---------------------------------------------- decide_change on its own
\* the inputs: no record or a record, headers present or absent, equal or not
DecideOldRecords ==
    { [filename |-> <<"x.pdf">>, etag |-> e, last_modified |-> l, content_length |-> n,
       sha256 |-> sha256_file("c1"), updated_at |-> 0] :
         e \in {"", "abc"}, l \in {"", "Mon"}, n \in {0, 10} }

DecideInputs ==
    [old : {<<>>} \cup { <<r>> : r \in DecideOldRecords },
     etag : {"", "abc", "xyz"}, lm : {"", "Mon", "Tue"}, len : {0, 10, 20}, force : BOOLEAN]

InitDecide == InitMain /\ fnIn \in DecideInputs /\ fnOut = <<>> /\ InitSaveIdle

DecideChange ==
    /\ fnOut = <<>>
    /\ fnOut' = << decide_change(fnIn.old, fnIn.etag, fnIn.lm, fnIn.len, fnIn.force) >>
    /\ UNCHANGED << envVars, mfile, files, run, now, pc, err, force, links, i, manifest,
                    itemLocals, counters, addLog, getLog, seenVars, itemsAtStart, envChanged,
                    prevRun, fnIn, saveVars >>

NextDecide == DecideChange

SpecDecide == InitDecide /\ [][NextDecide]_vars

\* ------------------------------- save_manifest step by step, with readers
\* the manifest file as another process finds it: <<>> (no file) or <<text>>
ManifestText == IF spc = "open" THEN << mtext >> ELSE mfile

\* api_updates: items and checked_at of the manifest, or the directory listing
\* of data/pdfs when the file is missing or does not parse
api_updates(file) ==
    IF file # <<>> /\ JsonLoad(file[1]) # <<>>
    THEN [checked_at |-> JsonLoad(file[1])[1].checked_at, items |-> JsonLoad(file[1])[1].items]
    ELSE [checked_at |-> 0,
          items |-> [f \in {g \in FileNames : Exists(g)} |-> [filename |-> f]]]

\* save_manifest, lines 61-62: the directory is made, checked_at is stamped
SaveStamp ==
    /\ pc = "AllItems" /\ spc = "idle"
    /\ manifest' = [manifest EXCEPT !.checked_at = now]
    /\ spc' = "stamped"
    /\ UNCHANGED << envVars, mfile, files, run, now, pc, err, force, links, i, itemLocals,
                    counters, addLog, getLog, seenVars, itemsAtStart, envChanged, prevRun,
                    fnIn, fnOut, mtext, interrupted, deleting, crawl, peer, written >>

\* save_manifest, line 63: open(MANIFEST, "w") creates or truncates the file
SaveOpen ==
    /\ pc = "AllItems" /\ spc = "stamped"
    /\ mtext' = <<>>
    /\ spc' = "open"
    /\ UNCHANGED << envVars, mfile, files, run, now, pc, err, force, links, i, manifest,
                    itemLocals, counters, addLog, getLog, seenVars, itemsAtStart, envChanged,
                    prevRun, fnIn, fnOut, interrupted, deleting, crawl, peer, written >>

\* save_manifest, line 64: json.dump writes; k more members reach the file
SaveWrite(k) ==
    /\ pc = "AllItems" /\ spc = "open"
    /\ Len(mtext) + k <= Len(JsonDump(manifest))
    /\ mtext' = SubSeq(JsonDump(manifest), 1, Len(mtext) + k)
    /\ UNCHANGED << envVars, mfile, files, run, now, pc, err, force, links, i, manifest,
                    itemLocals, counters, addLog, getLog, seenVars, itemsAtStart, envChanged,
                    prevRun, fnIn, fnOut, spc, interrupted, deleting, crawl, peer, written >>

\* save_manifest, line 64 to the end of the with block: the rest is flushed
\* and the file closed; main reports (lines 214-215)
SaveClose ==
    /\ pc = "AllItems" /\ spc = "open"
    /\ mfile' = << JsonDump(manifest) >>
    /\ mtext' = <<>>
    /\ spc' = "idle"
    /\ pc' = "done"
    /\ UNCHANGED << envVars, files, run, now, err, force, links, i, manifest, itemLocals,
                    counters, addLog, getLog, seenVars, itemsAtStart, envChanged, prevRun,
                    fnIn, fnOut, interrupted, deleting, crawl, peer, written >>

\* the process is killed while the file is open: what was written stays
SaveCrash ==
    /\ pc = "AllItems" /\ spc = "open"
    /\ mfile' = << mtext >>
    /\ mtext' = <<>>
    /\ spc' = "idle"
    /\ pc' = "aborted"
    /\ err' = "killed"
    /\ UNCHANGED << envVars, files, run, now, force, links, i, manifest, itemLocals,
                    counters, addLog, getLog, seenVars, itemsAtStart, envChanged, prevRun,
                    fnIn, fnOut, interrupted, deleting, crawl, peer, written >>

NextSave ==
    \/ MainSteps
    \/ SaveStamp
    \/ SaveOpen
    \/ \E k \in 1..Len(JsonDump(manifest)) : SaveWrite(k)
    \/ SaveClose
    \/ SaveCrash

SpecSave == Init /\ [][NextSave]_vars

\* ------------------------------------------- a run killed between two items
\* the URLs the run has added or updated so far (lines 196-210 were reached
\* for them): the record is not the one loaded, and there was none, or the
\* run is forced, or the digest is another one
Changed ==
    { u \in URLs :
        /\ manifest.items[u] # itemsAtStart[u]
        /\ \/ itemsAtStart[u] = <<>>
           \/ force
           \/ manifest.items[u][1].sha256 # itemsAtStart[u][1].sha256 }

\* the process is killed at an item boundary, before save_manifest (line 213)
Interrupt ==
    /\ pc \in {"Listed", "AllItems"}
    /\ pc' = "aborted"
    /\ err' = "killed"
    /\ interrupted' = << [run |-> run, force |-> force, changed |-> Changed] >>
    /\ UNCHANGED << envVars, mfile, files, run, now, force, links, i, manifest, itemLocals,
                    counters, addLog, getLog, seenVars, itemsAtStart, envChanged, prevRun,
                    fnIn, fnOut, mtext, spc, deleting, crawl, peer, written >>

\* a synchronised installation one of whose local files has since been removed
InitLocalFileRemoved ==
    /\ mfile = << JsonDump([source_url |-> MAIN_URL, checked_at |-> 0, items |-> SyncedItems]) >>
    /\ \E f \in FileNames :
          files = [g \in FileNames |-> IF g = f THEN NoFile ELSE InitRemote.body]

InitKill ==
    /\ InitInstall \/ InitLocalFileRemoved
    /\ InitProcess
    /\ fnIn = <<>> /\ fnOut = <<>> /\ InitSaveIdle

NextKill ==
    \/ MainSteps
    \/ SaveManifest
    \/ Interrupt

SpecKill == InitKill /\ [][NextKill]_vars

\* ------------------------------------ the front end (djfrontend/views.py)
\* the file names a DELETE request can carry: no "/" and no "\" in them
UserFileNames == FileNames \cup { <<"guide.pdf">>, <<"notes.pdf">> }

\* k.endswith("/" + filename), for a URL given by its path segments and a
\* file name given by its pieces
UrlEndsWith(url, filename) == Len(filename) = 1 /\ url[Len(url)] = filename[1]

\* lines 139-147: the items without the records whose URL ends with
\* "/" + filename or whose filename is filename
RemoveEntries(items, filename) ==
    [u \in URLs |->
        IF items[u] # <<>> /\ (UrlEndsWith(u, filename) \/ items[u][1].filename = filename)
        THEN <<>> ELSE items[u]]

\* _manifest_remove_entry_by_filename: the manifest file after it; nothing
\* is done when the file is missing or does not parse
manifest_remove_entry_by_filename(file, filename) ==
    IF file = <<>> \/ JsonLoad(file[1]) = <<>> THEN file
    ELSE << JsonDump([JsonLoad(file[1])[1] EXCEPT
                         !.items = RemoveEntries(JsonLoad(file[1])[1].items, filename)]) >>

\* delete_user_pdf, lines 155-198, between runs: the file of that name in the
\* user directory and its vectors in the user collection (neither is part of
\* this state) are removed, then the manifest entries. vectorsOk = FALSE:
\* delete_user_documents_by_filenames raises and the request ends at line 189.
DeleteUserPdf(filename, vectorsOk) ==
    /\ pc = "idle"
    /\ run < MaxRuns
    /\ nchanges < MaxEnvChanges
    /\ mfile' = IF vectorsOk THEN manifest_remove_entry_by_filename(mfile, filename) ELSE mfile
    /\ nchanges' = nchanges + 1
    /\ envChanged' = TRUE
    /\ UNCHANGED << remote, listing, files, run, now, pc, err, force, links, i, manifest,
                    itemLocals, counters, addLog, getLog, seenVars, itemsAtStart, prevRun, fnVars >>

NextFront ==
    \/ Next
    \/ \E f \in UserFileNames, ok \in BOOLEAN : DeleteUserPdf(f, ok)

SpecFront == Init /\ [][NextFront]_vars

\* ------------------------- commands running at the same time (SpecRace)
\* main of check_updates with three other processes that nothing in the
\* code keeps apart from it: the front end answering a DELETE request, the
\* crawler's command, and a second main of check_updates (scheduler.py runs
\* main in a background thread, and the script can be started by hand).
\* Every step below holds at most one access to the manifest file or to a
\* file of data/pdfs; here mfile is the file on disk at every step. Each
\* writer of the manifest opens it with mode "w" (which empties it) and
\* writes its text when json.dump's output is flushed at the end of the
\* with block (the texts here are shorter than the file object's buffer),
\* from offset 0 of its own handle.

\* the variables of main that no other process reads or writes
mainOwn == << run, now, pc, err, force, links, i, manifest, itemLocals, counters, addLog,
              getLog, seenVars, itemsAtStart, prevRun, fnIn, fnOut, mtext, spc, interrupted >>

\* main is between its load_manifest (line 142) and the open of its
\* save_manifest (line 63)
BeforeSave == pc \notin {"idle", "done", "aborted"} /\ spc = "idle"

\* A body is streamed in two written. What a file that is being written holds:
\* its first and its second part, "" for a part not written
NoHalves == << "", "" >>
Halves(f) == IF files[f] = "part" THEN written[f] ELSE << files[f], files[f] >>
Whole(p) == p[1] # "" /\ p[1] = p[2]

\* open(path, "wb"): the file is created or emptied
OpenWb(f) ==
    /\ files' = [files EXCEPT ![f] = "part"]
    /\ written' = [written EXCEPT ![f] = NoHalves]

\* f.write(part) for part n of body, at the writer's own offset; a file
\* removed from the directory while it was open stays removed
WritePart(f, n, body) ==
    LET p == [Halves(f) EXCEPT ![n] = body]
    IN  IF files[f] = NoFile THEN UNCHANGED << files, written >>
        ELSE /\ files' = [files EXCEPT ![f] = IF Whole(p) THEN p[1] ELSE "part"]
             /\ written' = [written EXCEPT ![f] = IF Whole(p) THEN NoHalves ELSE p]

\* download, lines 113-116, called at line 170: the GET is sent; when it is
\* answered with a 2xx status the file is opened, else download returns
\* False (lines 171-173)
DownloadOpen(answered) ==
    /\ pc = "Fetching"
    /\ getLog' = Append(getLog, CurUrl)
    /\ IF answered
         THEN /\ OpenWb(CurFile)
              /\ failed' = failed
              /\ pc' = "FileOpen"
         ELSE /\ UNCHANGED << files, written >>
              /\ failed' = failed + 1
              /\ pc' = "Failed"
    /\ UNCHANGED << envVars, mfile, run, now, err, force, links, i, manifest, itemLocals,
                    added, updated, skipped, addLog, seenVars, itemsAtStart, envChanged,
                    prevRun, fnIn, fnOut, mtext, spc, interrupted, deleting, crawl, peer >>

\* download, lines 117-123: the next part is written, or the stream breaks
\* off (ok = FALSE) and download returns False with the file left as it is
DownloadPart(ok) ==
    /\ pc \in {"FileOpen", "HalfWritten"}
    /\ IF ok
         THEN /\ WritePart(CurFile, IF pc = "FileOpen" THEN 1 ELSE 2, remote[CurUrl].body)
              /\ failed' = failed
              /\ pc' = IF pc = "FileOpen" THEN "HalfWritten" ELSE "Fetched"
         ELSE /\ UNCHANGED << files, written >>
              /\ failed' = failed + 1
              /\ pc' = "Failed"
    /\ UNCHANGED << envVars, mfile, run, now, err, force, links, i, manifest, itemLocals,
                    added, updated, skipped, addLog, getLog, seenVars, itemsAtStart, envChanged,
                    prevRun, fnIn, fnOut, mtext, spc, interrupted, deleting, crawl, peer >>

\* save_manifest, lines 61-63: checked_at is stamped in memory and
\* open(MANIFEST, "w") empties the file
SaveOpenShared ==
    /\ pc = "AllItems" /\ spc = "idle"
    /\ manifest' = [manifest EXCEPT !.checked_at = now]
    /\ mfile' = << <<>> >>
    /\ spc' = "open"
    /\ UNCHANGED << envVars, files, run, now, pc, err, force, links, i,
                    itemLocals, counters, addLog, getLog, seenVars, itemsAtStart, envChanged,
                    prevRun, fnIn, fnOut, mtext, interrupted, deleting, crawl, peer, written >>

\* save_manifest, line 64 to the end of the with block, over whatever the
\* file holds by then; main reports (lines 214-215)
SaveDumpShared ==
    /\ pc = "AllItems" /\ spc = "open"
    /\ mfile' = << Overwrite(mfile[1], JsonDump(manifest)) >>
    /\ spc' = "idle"
    /\ pc' = "done"
    /\ UNCHANGED << envVars, files, run, now, err, force, links, i, manifest, itemLocals,
                    counters, addLog, getLog, seenVars, itemsAtStart, envChanged, prevRun,
                    fnIn, fnOut, mtext, interrupted, deleting, crawl, peer, written >>

\* ---- the front end: delete_user_pdf (views.py lines 155-198)
\* the URLs whose records RemoveEntries takes out of items
Removed(items, filename) == { u \in URLs : items[u] # RemoveEntries(items, filename)[u] }

\* Lines 155-191 and, of _manifest_remove_entry_by_filename, lines 132-147:
\* the manifest is read and the entries are removed from the copy in memory.
\* Nothing is read when the vectors could not be deleted (line 189), and
\* nothing will be written when the file is missing or does not parse.
DeleteRead(filename, vectorsOk) ==
    /\ nchanges < MaxEnvChanges
    /\ IF deleting = <<>> THEN TRUE ELSE deleting[1].at = "answered"
    /\ deleting' = IF vectorsOk /\ mfile # <<>> /\ JsonLoad(mfile[1]) # <<>>
                     THEN << [data |-> [JsonLoad(mfile[1])[1] EXCEPT
                                          !.items = RemoveEntries(JsonLoad(mfile[1])[1].items, filename)],
                              gone |-> Removed(JsonLoad(mfile[1])[1].items, filename),
                              at   |-> "read",
                              wroteIn |-> 0] >>
                     ELSE <<>>
    /\ nchanges' = nchanges + 1
    /\ envChanged' = TRUE
    /\ UNCHANGED << remote, listing, mfile, files, mainOwn, crawl, peer, written >>

\* _manifest_remove_entry_by_filename, line 148: open(MANIFEST, "w") empties
\* the file. (wroteIn: the run of main this happens in, before that run's
\* save, else 0.)
DeleteOpen ==
    /\ deleting # <<>> /\ deleting[1].at = "read"
    /\ mfile' = << <<>> >>
    /\ deleting' = << [deleting[1] EXCEPT !.at = "open",
                                          !.wroteIn = IF BeforeSave THEN run ELSE 0] >>
    /\ UNCHANGED << envVars, envChanged, files, mainOwn, crawl, peer, written >>

\* _manifest_remove_entry_by_filename, line 149 to the end of the with
\* block: the copy is written over whatever the file holds by then, and the
\* request is answered
DeleteWrite ==
    /\ deleting # <<>> /\ deleting[1].at = "open"
    /\ mfile' = << Overwrite(mfile[1], JsonDump(deleting[1].data)) >>
    /\ deleting' = << [deleting[1] EXCEPT !.at = "answered",
                                          !.data = EmptyManifest,
                                          !.wroteIn = IF BeforeSave /\ @ = run THEN run ELSE 0] >>
    /\ UNCHANGED << envVars, envChanged, files, mainOwn, crawl, peer, written >>

\* ---- the crawler's command (app/crawler_qld.py)
\* The crawler at link k of ls, or <<>> when the loop of lines 158-166 has
\* done every link: the counts are printed (line 168) and the command ends.
CrawlerAt(frc, ls, k) ==
    IF k > Len(ls) THEN <<>> ELSE << [force |-> frc, links |-> ls, k |-> k, at |-> "test"] >>

\* main of the crawler, lines 142-155: the listing page is fetched and
\* parsed. listingOk = FALSE: http_get raises and the command ends.
CrawlerStart(frc, listingOk) ==
    /\ nchanges < MaxEnvChanges
    /\ crawl = <<>>
    /\ crawl' = IF listingOk THEN CrawlerAt(frc, listing, 1) ELSE <<>>
    /\ nchanges' = nchanges + 1
    /\ envChanged' = TRUE
    /\ UNCHANGED << remote, listing, mfile, files, mainOwn, deleting, peer, written >>

\* the file name download_pdf gives the crawler's current link
CrawlFile == build_local_name(crawl[1].links[crawl[1].k].url, crawl[1].links[crawl[1].k].text)

\* download_pdf, lines 95-121, for the crawler's next link: a file that
\* exists is skipped unless --force (lines 105-117, whatever the HEAD request
\* of lines 107-113 gives); else the GET is sent
CrawlerTest ==
    /\ crawl # <<>> /\ crawl[1].at = "test"
    /\ crawl' = IF files[CrawlFile] # NoFile /\ ~crawl[1].force
                  THEN CrawlerAt(crawl[1].force, crawl[1].links, crawl[1].k + 1)
                  ELSE << [crawl[1] EXCEPT !.at = "wait"] >>
    /\ UNCHANGED << envVars, envChanged, mfile, files, mainOwn, deleting, peer, written >>

\* download_pdf, lines 121-126: the GET is answered and the file is opened,
\* or it fails and the file is left alone ("fail", lines 138-140)
CrawlerOpen(answered) ==
    /\ crawl # <<>> /\ crawl[1].at = "wait"
    /\ IF answered
         THEN /\ crawl' = << [crawl[1] EXCEPT !.at = "open"] >>
              /\ OpenWb(CrawlFile)
         ELSE /\ crawl' = CrawlerAt(crawl[1].force, crawl[1].links, crawl[1].k + 1)
              /\ UNCHANGED << files, written >>
    /\ UNCHANGED << envVars, envChanged, mfile, mainOwn, deleting, peer >>

\* download_pdf, lines 127-140: the next part is written, or the stream
\* breaks off (ok = FALSE, "fail") with the file left as it is
CrawlerPart(ok) ==
    /\ crawl # <<>> /\ crawl[1].at \in {"open", "half"}
    /\ IF ok
         THEN /\ WritePart(CrawlFile, IF crawl[1].at = "open" THEN 1 ELSE 2,
                           remote[crawl[1].links[crawl[1].k].url].body)
              /\ crawl' = IF crawl[1].at = "open" THEN << [crawl[1] EXCEPT !.at = "half"] >>
                          ELSE CrawlerAt(crawl[1].force, crawl[1].links, crawl[1].k + 1)
         ELSE /\ UNCHANGED << files, written >>
              /\ crawl' = CrawlerAt(crawl[1].force, crawl[1].links, crawl[1].k + 1)
    /\ UNCHANGED << envVars, envChanged, mfile, mainOwn, deleting, peer >>

\* ---- a second main of check_updates (scripts/check_updates.py)
\* The second process keeps to itself what main keeps in its locals: its
\* manifest, its links and the link it is at, the item's headers, old
\* record and hash; new holds the records it has assigned. It ends as <<>>
\* when an exception leaves it, and as a record at "saved" when it has saved.
PeerUrl == peer[1].links[peer[1].k].url
PeerFile == build_local_name(peer[1].links[peer[1].k].url, peer[1].links[peer[1].k].text)

\* the for loop, line 153: the next link, or the end of the loop
PeerNext(p) ==
    [p EXCEPT !.k = @ + 1, !.meta = NoMeta, !.old = <<>>, !.sha = <<>>,
              !.at = IF p.k < Len(p.links) THEN "item" ELSE "all"]

\* lines 134-151: the manifest is loaded, the listing fetched and parsed
PeerStart(frc, listingOk) ==
    /\ nchanges < MaxEnvChanges
    /\ IF peer = <<>> THEN TRUE ELSE peer[1].at = "saved"
    /\ peer' = IF listingOk
                 THEN << [force |-> frc, links |-> listing, k |-> 1, manifest |-> load_manifest,
                          new |-> NoItems, meta |-> NoMeta, old |-> <<>>, sha |-> <<>>,
                          at |-> IF listing = <<>> THEN "all" ELSE "item", wroteIn |-> 0] >>
                 ELSE <<>>
    /\ nchanges' = nchanges + 1
    /\ envChanged' = TRUE
    /\ UNCHANGED << remote, listing, mfile, files, mainOwn, deleting, crawl, written >>

\* lines 155-167: head_meta, decide_change and the test of the local file
PeerHeadMeta(headResp, getResp) ==
    /\ peer # <<>> /\ peer[1].at = "item"
    /\ LET m   == head_meta(headResp, getResp)
           old == peer[1].manifest.items[PeerUrl]
           nd  == decide_change(old, m.etag, m.last_modified, m.content_length, peer[1].force)
       IN  peer' = IF ShouldSkip(nd, Exists(PeerFile))
                     THEN << PeerNext(peer[1]) >>
                     ELSE << [peer[1] EXCEPT !.at = "fetching", !.meta = m, !.old = old] >>
    /\ UNCHANGED << envVars, envChanged, mfile, files, mainOwn, deleting, crawl, written >>

\* download, lines 113-116
PeerDownloadOpen(answered) ==
    /\ peer # <<>> /\ peer[1].at = "fetching"
    /\ IF answered
         THEN /\ OpenWb(PeerFile)
              /\ peer' = << [peer[1] EXCEPT !.at = "open"] >>
         ELSE /\ UNCHANGED << files, written >>
              /\ peer' = << PeerNext(peer[1]) >>
    /\ UNCHANGED << envVars, envChanged, mfile, mainOwn, deleting, crawl >>

\* download, lines 117-123
PeerDownloadPart(ok) ==
    /\ peer # <<>> /\ peer[1].at \in {"open", "half"}
    /\ IF ok
         THEN /\ WritePart(PeerFile, IF peer[1].at = "open" THEN 1 ELSE 2, remote[PeerUrl].body)
              /\ peer' = << [peer[1] EXCEPT !.at = IF @ = "open" THEN "half" ELSE "fetched"] >>
         ELSE /\ UNCHANGED << files, written >>
              /\ peer' = << PeerNext(peer[1]) >>
    /\ UNCHANGED << envVars, envChanged, mfile, mainOwn, deleting, crawl >>

\* lines 175-191: the file is hashed; hashOk = FALSE: sha256_file raises
PeerVerify(hashOk) ==
    /\ peer # <<>> /\ peer[1].at = "fetched"
    /\ LET sha == sha256_file(files[PeerFile])
           rec == << RefreshedRecord(peer[1].old[1], PeerFile, peer[1].meta, sha, now) >>
       IN  peer' = IF ~hashOk THEN <<>>
                   ELSE IF UnchangedBySha(peer[1].old, peer[1].force, sha)
                   THEN << PeerNext([peer[1] EXCEPT !.manifest.items[PeerUrl] = rec,
                                                    !.new[PeerUrl] = rec]) >>
                   ELSE << [peer[1] EXCEPT !.at = "chunking", !.sha = sha] >>
    /\ UNCHANGED << envVars, envChanged, mfile, files, mainOwn, deleting, crawl, written >>

\* lines 194-210: reembed_pdf reads the file and pushes its chunks to the
\* vector store (which is not part of this state), then the record is
\* assigned; "chunk_error" and "index_error" leave the process
PeerReembed(outcome) ==
    /\ peer # <<>> /\ peer[1].at = "chunking"
    /\ outcome = "index_error" => NumDocs(files[PeerFile]) > 0
    /\ LET rec == << NewRecord(PeerFile, peer[1].meta, peer[1].sha, now) >>
       IN  peer' = IF outcome = "ok"
                     THEN << PeerNext([peer[1] EXCEPT !.manifest.items[PeerUrl] = rec,
                                                      !.new[PeerUrl] = rec]) >>
                     ELSE <<>>
    /\ UNCHANGED << envVars, envChanged, mfile, files, mainOwn, deleting, crawl, written >>

\* save_manifest, lines 61-63
PeerSaveOpen ==
    /\ peer # <<>> /\ peer[1].at = "all"
    /\ mfile' = << <<>> >>
    /\ peer' = << [peer[1] EXCEPT !.at = "saving", !.manifest.checked_at = now,
                                  !.wroteIn = IF BeforeSave THEN run ELSE 0] >>
    /\ UNCHANGED << envVars, envChanged, files, mainOwn, deleting, crawl, written >>

\* save_manifest, line 64 to the end of the with block; the process ends
PeerSaveDump ==
    /\ peer # <<>> /\ peer[1].at = "saving"
    /\ mfile' = << Overwrite(mfile[1], JsonDump(peer[1].manifest)) >>
    /\ peer' = << [peer[1] EXCEPT !.at = "saved", !.manifest = EmptyManifest, !.links = <<>>,
                                  !.k = 1, !.force = FALSE,
                                  !.wroteIn = IF BeforeSave /\ @ = run THEN run ELSE 0] >>
    /\ UNCHANGED << envVars, envChanged, files, mainOwn, deleting, crawl, written >>

NextRace ==
    \/ \E frc \in BOOLEAN, ok \in BOOLEAN : StartRun(frc, ok)
    \/ pc = "Listed" /\ \E h \in ResponsesFor(CurUrl), g \in ResponsesFor(CurUrl) : HeadMeta(h, g)
    \/ SkipOrFetch
    \/ \E answered \in BOOLEAN : DownloadOpen(answered)
    \/ \E ok \in BOOLEAN : DownloadPart(ok)
    \/ \E ok \in BOOLEAN : Verify(ok)
    \/ \E o \in {"ok", "chunk_error", "index_error"} : Reembed(o)
    \/ Record
    \/ NextItem
    \/ SaveOpenShared
    \/ SaveDumpShared
    \/ Exit
    \/ \E f \in UserFileNames, ok \in BOOLEAN : DeleteRead(f, ok)
    \/ DeleteOpen
    \/ DeleteWrite
    \/ \E frc \in BOOLEAN, ok \in BOOLEAN : CrawlerStart(frc, ok)
    \/ CrawlerTest
    \/ \E answered \in BOOLEAN : CrawlerOpen(answered)
    \/ \E ok \in BOOLEAN : CrawlerPart(ok)
    \/ \E frc \in BOOLEAN, ok \in BOOLEAN : PeerStart(frc, ok)
    \/ /\ peer # <<>>
       /\ peer[1].at = "item"
       /\ \E h \in ResponsesFor(PeerUrl), g \in ResponsesFor(PeerUrl) : PeerHeadMeta(h, g)
    \/ \E answered \in BOOLEAN : PeerDownloadOpen(answered)
    \/ \E ok \in BOOLEAN : PeerDownloadPart(ok)
    \/ \E ok \in BOOLEAN : PeerVerify(ok)
    \/ \E o \in {"ok", "chunk_error", "index_error"} : PeerReembed(o)
    \/ PeerSaveOpen
    \/ PeerSaveDump

\* the installation of Init with a listing page that links one of the two
\* documents (the other's record and file, if any, are those of a document
\* that has left the page)
InitRace ==
    /\ InitInstall
    /\ \E ls \in Listings : Len(ls) = 1 /\ InitProcessOn(ls)
    /\ fnIn = <<>> /\ fnOut = <<>> /\ InitSaveIdle

SpecRace == InitRace /\ [][NextRace]_vars

\* ------------------------------- parse_pdf_links (app/crawler_qld.py)
\* number of <a> elements of a listing page
MaxAnchors == 3

\* the listing page's URL (MAIN_URL, line 27), by its path segments
BaseUrl ==
    <<"industries", "mining-energy-water", "resources", "safety-health", "mining",
      "legislation-standards", MAIN_URL>>

\* the href attribute of an <a>: NoHref (the element has none), or how it is
\* written ("rel": name, "abs": /docs/name, "padded": name between blanks)
\* and the name it ends with
NoHref == [form |-> "none", name |-> ""]
Hrefs ==
    { NoHref,
      [form |-> "rel", name |-> "x.pdf"], [form |-> "abs", name |-> "x.pdf"],
      [form |-> "padded", name |-> "x.pdf"], [form |-> "rel", name |-> "guide.pdf"],
      [form |-> "rel", name |-> "GUIDE.PDF"], [form |-> "rel", name |-> "page.html"] }

\* the text inside an <a>, as written
AnchorTexts == {"", "Download", " RS 12 guide "}

Anchors == [href : Hrefs, text : AnchorTexts]

RECURSIVE AnchorSeqs(_)
AnchorSeqs(n) ==
    IF n = 0 THEN { <<>> }
    ELSE AnchorSeqs(n - 1) \cup { Append(q, a) : q \in { r \in AnchorSeqs(n - 1) : Len(r) = n - 1 },
                                                 a \in Anchors }

\* a["href"].strip()
HrefStrip(href) == IF href.form = "padded" THEN [href EXCEPT !.form = "rel"] ELSE href

\* ".pdf" in href.lower()
HasPdf(href) == href.name \in {"x.pdf", "guide.pdf", "GUIDE.PDF"}

\* urljoin(base_url, href): an absolute path replaces the base's path, a
\* relative one its last segment
urljoin(base, href) ==
    IF href.form = "abs" THEN << "docs", href.name >>
    ELSE SubSeq(base, 1, Len(base) - 1) \o << href.name >>

\* a.get_text(strip=True) or ""
get_text(text) == IF text = " RS 12 guide " THEN "RS 12 guide" ELSE text

\* lines 69-75: the (url, text) pairs of the <a> elements that have an href
\* with ".pdf" in it, in page order
RECURSIVE CollectLinks(_, _)
CollectLinks(anchors, base) ==
    IF anchors = <<>> THEN <<>>
    ELSE (IF Head(anchors).href # NoHref /\ HasPdf(HrefStrip(Head(anchors).href))
          THEN << [url |-> urljoin(base, HrefStrip(Head(anchors).href)),
                   text |-> get_text(Head(anchors).text)] >>
          ELSE <<>>) \o CollectLinks(Tail(anchors), base)

\* lines 79-82 with the pair kept in seen, not the URL
DedupeOne_ByPair(st, link) ==
    IF link \notin st.seen
    THEN [st EXCEPT !.uniq = Append(st.uniq, link), !.seen = st.seen \cup {link}]
    ELSE st

\* lines 79-82: one pass of the de-duplication loop
DedupeOne(st, link) ==
    IF link.url \notin st.seen
    THEN [st EXCEPT !.uniq = Append(st.uniq, link), !.seen = st.seen \cup {link.url}]
    ELSE st

\* fnOut: <<>> before the page is read, then <<the state of parse_pdf_links>>:
\* links, the index k of the next one, seen, uniq, and done (it has returned)
InitParse == InitMain /\ InitSaveIdle /\ fnIn \in AnchorSeqs(MaxAnchors) /\ fnOut = <<>>

\* lines 68-78
ParseAnchors ==
    /\ fnOut = <<>>
    /\ fnOut' = << [links |-> CollectLinks(fnIn, BaseUrl), k |-> 1, seen |-> {},
                    uniq |-> <<>>, done |-> FALSE] >>
    /\ UNCHANGED << envVars, mfile, files, run, now, pc, err, force, links, i, manifest,
                    itemLocals, counters, addLog, getLog, seenVars, itemsAtStart, envChanged,
                    prevRun, fnIn, saveVars >>

\* lines 79-82
DedupeStep ==
    /\ fnOut # <<>> /\ ~fnOut[1].done /\ fnOut[1].k <= Len(fnOut[1].links)
    /\ fnOut' = << [DedupeOne(fnOut[1], fnOut[1].links[fnOut[1].k]) EXCEPT !.k = fnOut[1].k + 1] >>
    /\ UNCHANGED << envVars, mfile, files, run, now, pc, err, force, links, i, manifest,
                    itemLocals, counters, addLog, getLog, seenVars, itemsAtStart, envChanged,
                    prevRun, fnIn, saveVars >>

\* line 83
ParseReturn ==
    /\ fnOut # <<>> /\ ~fnOut[1].done /\ fnOut[1].k > Len(fnOut[1].links)
    /\ fnOut' = << [fnOut[1] EXCEPT !.done = TRUE] >>
    /\ UNCHANGED << envVars, mfile, files, run, now, pc, err, force, links, i, manifest,
                    itemLocals, counters, addLog, getLog, seenVars, itemsAtStart, envChanged,
                    prevRun, fnIn, saveVars >>

NextParse ==
    \/ ParseAnchors
    \/ DedupeStep
    \/ ParseReturn

SpecParse == InitParse /\ [][NextParse]_vars

\* ------------------------------------ head_meta (scripts/check_updates.py)
\* the answers a server can give to a HEAD or a GET: every status with every
\* combination of headers sent, missing, empty or (the length) not a number
AnyResponses ==
    {RaiseResp} \cup
    [status : {200, 404},
     headers : [ETag : {Absent, "\"abc\"", "abc", ""},
                LastModified : {Absent, "Mon", ""},
                ContentLength : {Absent, "10", "ten", ""}]]

InitHead == InitMain /\ InitSaveIdle /\ fnIn \in [head : AnyResponses, get : AnyResponses] /\ fnOut = <<>>

\* head_meta(sess, url) with a server answering fnIn.head and fnIn.get
HeadMetaCall ==
    /\ fnOut = <<>>
    /\ fnOut' = << [result |-> head_meta(fnIn.head, fnIn.get),
                    requests |-> head_meta_requests(fnIn.head)] >>
    /\ UNCHANGED << envVars, mfile, files, run, now, pc, err, force, links, i, manifest,
                    itemLocals, counters, addLog, getLog, seenVars, itemsAtStart, envChanged,
                    prevRun, fnIn, saveVars >>

NextHead == HeadMetaCall

SpecHead == InitHead /\ [][NextHead]_vars

\* ------------------------------------- http_get (app/crawler_qld.py)
\* the default of the parameter retries, line 35
DefaultRetries == 3

\* what one session.get can give: a status code, or 0 when it raises (a
\* timeout, a refused connection)
Answers == {0, 200, 404, 503}

RECURSIVE AnswerSeqs(_)
AnswerSeqs(n) ==
    IF n = 0 THEN { <<>> }
    ELSE { Append(q, a) : q \in AnswerSeqs(n - 1), a \in Answers }

\* the argument retries, and what the server would answer to each attempt
HttpInputs == [retries : 0..DefaultRetries, answers : AnswerSeqs(DefaultRetries)]

\* the exception an unsuccessful attempt leaves in last_ex, lines 43 and 45
ErrorOf(answer) ==
    IF answer = 0 THEN <<"Timeout">> ELSE <<"RuntimeError", "HTTP", answer>>

\* fnOut: <<>> before the call, then <<the state of http_get>>: the loop
\* index i, last_ex (<<>> is None), the calls made so far in order (session.get
\* with the attempt's number, time.sleep with the exponent of backoff), where
\* the function is ("loop", "failed": after an attempt that failed,
\* "returned", "raised") and what it returned or raised
InitHttp == InitMain /\ InitSaveIdle /\ fnIn \in HttpInputs /\ fnOut = <<>>

\* line 36
HttpStart ==
    /\ fnOut = <<>>
    /\ fnOut' = << [i |-> 0, last_ex |-> <<>>, calls |-> <<>>, at |-> "loop", result |-> <<>>] >>
    /\ UNCHANGED << envVars, mfile, files, run, now, pc, err, force, links, i, manifest,
                    itemLocals, counters, addLog, getLog, seenVars, itemsAtStart, envChanged,
                    prevRun, fnIn, saveVars >>

\* lines 37-45: one attempt
HttpAttempt ==
    /\ fnOut # <<>> /\ fnOut[1].at = "loop" /\ fnOut[1].i < fnIn.retries
    /\ LET st == fnOut[1]
           answer == fnIn.answers[st.i + 1]
           called == Append(st.calls, <<"get", st.i + 1>>)
       IN  fnOut' = IF answer = 200
                      THEN << [st EXCEPT !.calls = called, !.at = "returned",
                                         !.result = <<"resp", answer>>] >>
                      ELSE << [st EXCEPT !.calls = called, !.at = "failed",
                                         !.last_ex = ErrorOf(answer)] >>
    /\ UNCHANGED << envVars, mfile, files, run, now, pc, err, force, links, i, manifest,
                    itemLocals, counters, addLog, getLog, seenVars, itemsAtStart, envChanged,
                    prevRun, fnIn, saveVars >>

\* line 46: time.sleep(backoff ** (i + 1) * 0.3), then the next i
HttpSleep ==
    /\ fnOut # <<>> /\ fnOut[1].at = "failed"
    /\ fnOut' = << [fnOut[1] EXCEPT !.calls = Append(fnOut[1].calls, <<"sleep", fnOut[1].i + 1>>),
                                    !.i = fnOut[1].i + 1, !.at = "loop"] >>
    /\ UNCHANGED << envVars, mfile, files, run, now, pc, err, force, links, i, manifest,
                    itemLocals, counters, addLog, getLog, seenVars, itemsAtStart, envChanged,
                    prevRun, fnIn, saveVars >>

\* line 47: raise last_ex or RuntimeError("Unknown HTTP error")
HttpRaise ==
    /\ fnOut # <<>> /\ fnOut[1].at = "loop" /\ fnOut[1].i >= fnIn.retries
    /\ fnOut' = << [fnOut[1] EXCEPT !.at = "raised",
                                    !.result = IF fnOut[1].last_ex # <<>> THEN fnOut[1].last_ex
                                               ELSE <<"RuntimeError", "Unknown HTTP error">>] >>
    /\ UNCHANGED << envVars, mfile, files, run, now, pc, err, force, links, i, manifest,
                    itemLocals, counters, addLog, getLog, seenVars, itemsAtStart, envChanged,
                    prevRun, fnIn, saveVars >>

NextHttp ==
    \/ HttpStart
    \/ HttpAttempt
    \/ HttpSleep
    \/ HttpRaise

SpecHttp == InitHttp /\ [][NextHttp]_vars

\* ------------------------------------------- chunking (app/ingest.py)
\* A text is a sequence of characters. Sizes are scaled down: the code's
\* CHUNK_SIZE = 1500 and CHUNK_OVERLAP = 150 are arguments drawn from
\* ChunkSizes and Overlaps.
MaxPages == 3
ChunkSizes == {4}
Overlaps == {0, 1, 2}

\* page texts as extract_pages returns them: an empty page, one paragraph,
\* a paragraph with a blank inside, paragraphs separated by blank lines,
\* a paragraph longer than the chunk size
PageTexts ==
    { <<>>,
      <<"a", "b">>,
      <<"a", " ", "b">>,
      <<"a", "b", "c", "d">>,
      <<"a", "b", "\n", "\n", "\n", " ", "c">>,
      <<"a", "b", "c", "d", "e">> }

RECURSIVE PageSeqs(_)
PageSeqs(n) ==
    IF n = 0 THEN { <<>> }
    ELSE PageSeqs(n - 1) \cup { Append(ps, t) : ps \in { q \in PageSeqs(n - 1) : Len(q) = n - 1 },
                                                 t \in PageTexts }

IsSpace(c) == c \in {" ", "\n"}

\* str.strip()
RECURSIVE LStrip(_)
LStrip(t) == IF t # <<>> /\ IsSpace(Head(t)) THEN LStrip(Tail(t)) ELSE t
RECURSIVE RStrip(_)
RStrip(t) == IF t # <<>> /\ IsSpace(t[Len(t)]) THEN RStrip(SubSeq(t, 1, Len(t) - 1)) ELSE t
strip(t) == RStrip(LStrip(t))

\* the first position of t at which two newlines follow each other, or 0
FirstBlankLine(t) ==
    LET hits == { j \in 1..(Len(t) - 1) : t[j] = "\n" /\ t[j + 1] = "\n" }
    IN  IF hits = {} THEN 0 ELSE CHOOSE j \in hits : \A h \in hits : j <= h

\* the first position from j on that does not hold a newline (Len(t) + 1 if none)
RECURSIVE SkipNewlines(_, _)
SkipNewlines(t, j) == IF j <= Len(t) /\ t[j] = "\n" THEN SkipNewlines(t, j + 1) ELSE j

\* re.split(r"\n{2,}", txt)
RECURSIVE SplitBlankLines(_)
SplitBlankLines(t) ==
    LET j == FirstBlankLine(t)
    IN  IF j = 0 THEN << t >>
        ELSE << SubSeq(t, 1, j - 1) >> \o
             SplitBlankLines(SubSeq(t, SkipNewlines(t, j), Len(t)))

\* line 71 without the filter `if p.strip()`: empty parts are kept
RECURSIVE ParasOfParts_EmptyKept(_, _)
ParasOfParts_EmptyKept(idx, parts) ==
    IF parts = <<>> THEN <<>>
    ELSE << [p_start |-> idx, p_end |-> idx, p_txt |-> strip(Head(parts))] >>
         \o ParasOfParts_EmptyKept(idx, Tail(parts))

\* line 71: the stripped, non-empty parts of a page, and lines 72-73
RECURSIVE ParasOfParts(_, _)
ParasOfParts(idx, parts) ==
    IF parts = <<>> THEN <<>>
    ELSE (IF strip(Head(parts)) # <<>>
          THEN << [p_start |-> idx, p_end |-> idx, p_txt |-> strip(Head(parts))] >>
          ELSE <<>>) \o ParasOfParts(idx, Tail(parts))

\* paragraphs_from_pages; pages[k] is the text of the page of index k - 1
RECURSIVE ParasFrom(_, _)
ParasFrom(pages, k) ==
    IF k > Len(pages) THEN <<>>
    ELSE (IF pages[k] = <<>> THEN <<>> ELSE ParasOfParts(k - 1, SplitBlankLines(pages[k])))
         \o ParasFrom(pages, k + 1)

paragraphs_from_pages(pages) == ParasFrom(pages, 1)

Min(a, b) == IF a <= b THEN a ELSE b
Max(a, b) == IF a >= b THEN a ELSE b

\* buf_text[-overlap:] for 0 < overlap < len(buf_text)
LastChars(t, n) == SubSeq(t, Len(t) - n + 1, Len(t))

\* the accumulator before the loop: buf_text = "", buf_start = buf_end = None (-1)
NoBuf == [chunks |-> <<>>, buf_text |-> <<>>, buf_start |-> -1, buf_end |-> -1]

\* line 97 without the joining newline counted
MergeOne_JoinUncounted(b, p, chunk_size, overlap) ==
    IF b.buf_text = <<>>
    THEN [b EXCEPT !.buf_text = p.p_txt, !.buf_start = p.p_start, !.buf_end = p.p_end]
    ELSE IF Len(b.buf_text) + Len(p.p_txt) > chunk_size
    THEN LET closed == [start_page |-> b.buf_start, end_page |-> b.buf_end,
                        text |-> strip(b.buf_text)]
         IN  IF overlap > 0 /\ Len(b.buf_text) > overlap
             THEN [chunks |-> Append(b.chunks, closed),
                   buf_text |-> LastChars(b.buf_text, overlap) \o <<"\n">> \o p.p_txt,
                   buf_start |-> Min(b.buf_end, p.p_start),
                   buf_end |-> Max(b.buf_end, p.p_end)]
             ELSE [chunks |-> Append(b.chunks, closed),
                   buf_text |-> p.p_txt,
                   buf_start |-> p.p_start,
                   buf_end |-> p.p_end]
    ELSE [b EXCEPT !.buf_text = b.buf_text \o <<"\n">> \o p.p_txt,
                   !.buf_end = Max(b.buf_end, p.p_end)]

\* lines 103-104 with min and max exchanged
MergeOne_SwappedMinMax(b, p, chunk_size, overlap) ==
    IF b.buf_text = <<>>
    THEN [b EXCEPT !.buf_text = p.p_txt, !.buf_start = p.p_start, !.buf_end = p.p_end]
    ELSE IF Len(b.buf_text) + 1 + Len(p.p_txt) > chunk_size
    THEN LET closed == [start_page |-> b.buf_start, end_page |-> b.buf_end,
                        text |-> strip(b.buf_text)]
         IN  IF overlap > 0 /\ Len(b.buf_text) > overlap
             THEN [chunks |-> Append(b.chunks, closed),
                   buf_text |-> LastChars(b.buf_text, overlap) \o <<"\n">> \o p.p_txt,
                   buf_start |-> Max(b.buf_end, p.p_start),
                   buf_end |-> Min(b.buf_end, p.p_end)]
             ELSE [chunks |-> Append(b.chunks, closed),
                   buf_text |-> p.p_txt,
                   buf_start |-> p.p_start,
                   buf_end |-> p.p_end]
    ELSE [b EXCEPT !.buf_text = b.buf_text \o <<"\n">> \o p.p_txt,
                   !.buf_end = Max(b.buf_end, p.p_end)]

\* line 106 with a paragraph longer than chunk_size cut to chunk_size
MergeOne_LongParagraphCut(b, p, chunk_size, overlap) ==
    IF b.buf_text = <<>>
    THEN [b EXCEPT !.buf_text = p.p_txt, !.buf_start = p.p_start, !.buf_end = p.p_end]
    ELSE IF Len(b.buf_text) + 1 + Len(p.p_txt) > chunk_size
    THEN LET closed == [start_page |-> b.buf_start, end_page |-> b.buf_end,
                        text |-> strip(b.buf_text)]
         IN  IF overlap > 0 /\ Len(b.buf_text) > overlap
             THEN [chunks |-> Append(b.chunks, closed),
                   buf_text |-> LastChars(b.buf_text, overlap) \o <<"\n">> \o p.p_txt,
                   buf_start |-> Min(b.buf_end, p.p_start),
                   buf_end |-> Max(b.buf_end, p.p_end)]
             ELSE [chunks |-> Append(b.chunks, closed),
                   buf_text |-> SubSeq(p.p_txt, 1, Min(Len(p.p_txt), chunk_size)),
                   buf_start |-> p.p_start,
                   buf_end |-> p.p_end]
    ELSE [b EXCEPT !.buf_text = b.buf_text \o <<"\n">> \o p.p_txt,
                   !.buf_end = Max(b.buf_end, p.p_end)]

\* one pass of the loop of merge_paras_to_chunks, lines 90-111
MergeOne(b, p, chunk_size, overlap) ==
    IF b.buf_text = <<>>
    THEN [b EXCEPT !.buf_text = p.p_txt, !.buf_start = p.p_start, !.buf_end = p.p_end]
    ELSE IF Len(b.buf_text) + 1 + Len(p.p_txt) > chunk_size
    THEN LET closed == [start_page |-> b.buf_start, end_page |-> b.buf_end,
                        text |-> strip(b.buf_text)]
         IN  IF overlap > 0 /\ Len(b.buf_text) > overlap
             THEN [chunks |-> Append(b.chunks, closed),
                   buf_text |-> LastChars(b.buf_text, overlap) \o <<"\n">> \o p.p_txt,
                   buf_start |-> Min(b.buf_end, p.p_start),
                   buf_end |-> Max(b.buf_end, p.p_end)]
             ELSE [chunks |-> Append(b.chunks, closed),
                   buf_text |-> p.p_txt,
                   buf_start |-> p.p_start,
                   buf_end |-> p.p_end]
    ELSE [b EXCEPT !.buf_text = b.buf_text \o <<"\n">> \o p.p_txt,
                   !.buf_end = Max(b.buf_end, p.p_end)]

\* lines 113-117: the accumulator is flushed
MergeEnd(b) ==
    IF strip(b.buf_text) # <<>>
    THEN [b EXCEPT !.chunks = Append(b.chunks, [start_page |-> b.buf_start,
                                               end_page |-> b.buf_end,
                                               text |-> strip(b.buf_text)])]
    ELSE b

\* the files given to make_docs_for_store: a directory and a file name
DocPaths == { [dir |-> <<".", "data", "pdfs">>, name |-> f] : f \in FileNames }

\* os.path.basename(file_path) and os.path.abspath(file_path)
basename(path) == path.name
abspath(path) == <<"/", "app">> \o Tail(path.dir) \o << path.name >>

\* detect_rs_number of app/ingest.py on a file name given by its pieces
ingest_detect_rs_number(name) ==
    IF \E k \in 1..Len(name) : detect_rs_number(name[k]) # "" \/ name[k] = "RS12"
    THEN "RS12" ELSE ""

\* line 143 with both pages always printed
PageRange_BothAlways(p_start, p_end) == <<"p.", p_start + 1, "-", p_end + 1>>

\* line 143: the 1-based page range of a chunk, "p.X" or "p.X-Y"
PageRange(p_start, p_end) ==
    IF p_end # p_start THEN <<"p.", p_start + 1, "-", p_end + 1>> ELSE <<"p.", p_start + 1>>

\* lines 141-153 with the chunks taken last first
Docs_LastFirst(path, chunks) ==
    [c \in 1..Len(chunks) |->
        LET ch == chunks[Len(chunks) + 1 - c]
        IN  [page_content |-> ch.text,
             metadata |-> [filename |-> basename(path),
                           source |-> <<"file://">> \o abspath(path),
                           page_range |-> PageRange(ch.start_page, ch.end_page),
                           rs_number |-> ingest_detect_rs_number(basename(path))]]]

\* make_docs_for_store, lines 134-135 and 141-153: one document per chunk
Docs(path, chunks) ==
    [c \in 1..Len(chunks) |->
        [page_content |-> chunks[c].text,
         metadata |-> [filename |-> basename(path),
                       source |-> <<"file://">> \o abspath(path),
                       page_range |-> PageRange(chunks[c].start_page, chunks[c].end_page),
                       rs_number |-> ingest_detect_rs_number(basename(path))]]]

\* add_documents, lines 52-54: what store.add_texts is called with
add_documents(docs) ==
    [texts |-> [c \in 1..Len(docs) |-> docs[c].page_content],
     metadatas |-> [c \in 1..Len(docs) |-> docs[c].metadata]]

ChunkInputs ==
    [path : DocPaths, pages : PageSeqs(MaxPages), chunk_size : ChunkSizes, overlap : Overlaps]

\* fnOut: <<>> before paragraphs_from_pages, then <<the state of reembed_pdf>>:
\* the paragraphs, the index k of the next one, the accumulator b, done (the
\* merge has returned), docs (<<>> or <<the documents>>), sent (<<>> or <<the
\* arguments of add_texts>>) and the line reembed_pdf printed
InitChunk == InitMain /\ InitSaveIdle /\ fnIn \in ChunkInputs /\ fnOut = <<>>

ParagraphsFromPages ==
    /\ fnOut = <<>>
    /\ fnOut' = << [paras |-> paragraphs_from_pages(fnIn.pages), k |-> 1, b |-> NoBuf,
                    done |-> FALSE, docs |-> <<>>, sent |-> <<>>, printed |-> ""] >>
    /\ UNCHANGED << envVars, mfile, files, run, now, pc, err, force, links, i, manifest,
                    itemLocals, counters, addLog, getLog, seenVars, itemsAtStart, envChanged,
                    prevRun, fnIn, saveVars >>

MergeStep ==
    /\ fnOut # <<>> /\ ~fnOut[1].done /\ fnOut[1].k <= Len(fnOut[1].paras)
    /\ fnOut' = << [fnOut[1] EXCEPT
                      !.b = MergeOne(fnOut[1].b, fnOut[1].paras[fnOut[1].k],
                                     fnIn.chunk_size, fnIn.overlap),
                      !.k = fnOut[1].k + 1] >>
    /\ UNCHANGED << envVars, mfile, files, run, now, pc, err, force, links, i, manifest,
                    itemLocals, counters, addLog, getLog, seenVars, itemsAtStart, envChanged,
                    prevRun, fnIn, saveVars >>

MergeFlush ==
    /\ fnOut # <<>> /\ ~fnOut[1].done /\ fnOut[1].k > Len(fnOut[1].paras)
    /\ fnOut' = << [fnOut[1] EXCEPT !.b = MergeEnd(fnOut[1].b), !.done = TRUE] >>
    /\ UNCHANGED << envVars, mfile, files, run, now, pc, err, force, links, i, manifest,
                    itemLocals, counters, addLog, getLog, seenVars, itemsAtStart, envChanged,
                    prevRun, fnIn, saveVars >>

\* make_docs_for_store, lines 141-153
MakeDocs ==
    /\ fnOut # <<>> /\ fnOut[1].done /\ fnOut[1].docs = <<>>
    /\ fnOut' = << [fnOut[1] EXCEPT !.docs = << Docs(fnIn.path, fnOut[1].b.chunks) >>] >>
    /\ UNCHANGED << envVars, mfile, files, run, now, pc, err, force, links, i, manifest,
                    itemLocals, counters, addLog, getLog, seenVars, itemsAtStart, envChanged,
                    prevRun, fnIn, saveVars >>

\* reembed_pdf, lines 128-130: the documents go to the vector store
AddDocuments ==
    /\ fnOut # <<>> /\ fnOut[1].docs # <<>> /\ fnOut[1].printed = ""
    /\ fnOut[1].docs[1] # <<>>
    /\ fnOut' = << [fnOut[1] EXCEPT !.sent = << add_documents(fnOut[1].docs[1]) >>,
                                    !.printed = "wrote"] >>
    /\ UNCHANGED << envVars, mfile, files, run, now, pc, err, force, links, i, manifest,
                    itemLocals, counters, addLog, getLog, seenVars, itemsAtStart, envChanged,
                    prevRun, fnIn, saveVars >>

\* reembed_pdf, lines 131-132: no documents, add_documents is not called
NoTextExtracted ==
    /\ fnOut # <<>> /\ fnOut[1].docs # <<>> /\ fnOut[1].printed = ""
    /\ fnOut[1].docs[1] = <<>>
    /\ fnOut' = << [fnOut[1] EXCEPT !.printed = "no text extracted"] >>
    /\ UNCHANGED << envVars, mfile, files, run, now, pc, err, force, links, i, manifest,
                    itemLocals, counters, addLog, getLog, seenVars, itemsAtStart, envChanged,
                    prevRun, fnIn, saveVars >>

NextChunk ==
    \/ ParagraphsFromPages
    \/ MergeStep
    \/ MergeFlush
    \/ MakeDocs
    \/ AddDocuments
    \/ NoTextExtracted

SpecChunk == InitChunk /\ [][NextChunk]_vars

\* ---------------------------- paragraphs_from_pages on its own (app/ingest.py)
\* page texts beyond PageTexts: only blanks, a blank line first, a blank part
\* between two blank lines, a single newline inside a paragraph
MorePageTexts ==
    { <<" ">>,
      <<"\n", "\n", "a">>,
      <<"a", "\n", "\n", " ", "\n", "\n", "b">>,
      <<"a", "\n", "b">> }

RECURSIVE TextSeqs(_, _)
TextSeqs(texts, n) ==
    IF n = 0 THEN { <<>> }
    ELSE TextSeqs(texts, n - 1) \cup
         { Append(ps, t) : ps \in { q \in TextSeqs(texts, n - 1) : Len(q) = n - 1 }, t \in texts }

\* fnIn: the texts of the pages of indices 0, 1, ... as extract_pages lists them
InitParas ==
    /\ InitMain /\ InitSaveIdle
    /\ fnIn \in TextSeqs(PageTexts \cup MorePageTexts, MaxPages)
    /\ fnOut = <<>>

\* paragraphs_from_pages(pages), lines 61-74
ParasCall ==
    /\ fnOut = <<>>
    /\ fnOut' = << paragraphs_from_pages(fnIn) >>
    /\ UNCHANGED << envVars, mfile, files, run, now, pc, err, force, links, i, manifest,
                    itemLocals, counters, addLog, getLog, seenVars, itemsAtStart, envChanged,
                    prevRun, fnIn, saveVars >>

NextParas == ParasCall

SpecParas == InitParas /\ [][NextParas]_vars

\* ---------------------------------------- ingest_directory (app/ingest.py)
\* the entries os.listdir can return, and the test f.lower().endswith(".pdf")
DirEntries == {"a.pdf", "B.PDF", "notes.txt"}
LowerEndsPdf(f) == f \in {"a.pdf", "B.PDF"}

\* what a file holds: bytes as in Bodies with NumDocs documents, or bytes
\* pypdf cannot read, on which make_docs_for_store raises
Unreadable == "corrupt"
DirContents == {"c1", "c2", "blank", Unreadable}

\* fnIn: whether pdf_dir is a directory, its entries in the order of
\* os.listdir, what each holds and the files on which add_documents raises
IngestInputs ==
    [isdir : BOOLEAN, entries : SeqsNoDup(DirEntries),
     holds : [DirEntries -> DirContents], storeFails : SUBSET { f \in DirEntries : LowerEndsPdf(f) }]

\* line 167: the entries that are PDF files, in their order
RECURSIVE PdfFiles(_)
PdfFiles(entries) ==
    IF entries = <<>> THEN <<>>
    ELSE (IF LowerEndsPdf(Head(entries)) THEN << Head(entries) >> ELSE <<>>)
         \o PdfFiles(Tail(entries))

\* fnOut: <<>> before the call, then <<the state of ingest_directory>>:
\* pdf_files, the index k of the next one, total, the names the loop has
\* taken (tried), the calls of add_documents that returned (stored), whether
\* the function has returned and with what
InitIngest == InitMain /\ InitSaveIdle /\ fnIn \in IngestInputs /\ fnOut = <<>>

\* lines 161-170: no directory or no PDF in it returns 0
IngestStart ==
    /\ fnOut = <<>>
    /\ LET pdf_files == IF fnIn.isdir THEN PdfFiles(fnIn.entries) ELSE <<>>
       IN  fnOut' = << [pdf_files |-> pdf_files, k |-> 1, total |-> 0, tried |-> <<>>,
                        stored |-> <<>>, returned |-> pdf_files = <<>>, result |-> 0] >>
    /\ UNCHANGED << envVars, mfile, files, run, now, pc, err, force, links, i, manifest,
                    itemLocals, counters, addLog, getLog, seenVars, itemsAtStart, envChanged,
                    prevRun, fnIn, saveVars >>

\* lines 172-183 with the chunks counted before add_documents is called
IngestFile_CountedFirst ==
    /\ fnOut # <<>> /\ ~fnOut[1].returned /\ fnOut[1].k <= Len(fnOut[1].pdf_files)
    /\ LET st == fnOut[1]
           name == st.pdf_files[st.k]
           n == NumDocs(fnIn.holds[name])
           seen == [st EXCEPT !.k = st.k + 1, !.tried = Append(st.tried, name)]
       IN  fnOut' = IF fnIn.holds[name] = Unreadable \/ n = 0
                      THEN << seen >>
                      ELSE IF name \in fnIn.storeFails
                      THEN << [seen EXCEPT !.total = st.total + n] >>
                      ELSE << [seen EXCEPT !.total = st.total + n,
                                           !.stored = Append(st.stored, [name |-> name, docs |-> n])] >>
    /\ UNCHANGED << envVars, mfile, files, run, now, pc, err, force, links, i, manifest,
                    itemLocals, counters, addLog, getLog, seenVars, itemsAtStart, envChanged,
                    prevRun, fnIn, saveVars >>

\* lines 172-183: one file; an exception of make_docs_for_store or of
\* add_documents is caught and printed, and the loop goes on
IngestFile ==
    /\ fnOut # <<>> /\ ~fnOut[1].returned /\ fnOut[1].k <= Len(fnOut[1].pdf_files)
    /\ LET st == fnOut[1]
           name == st.pdf_files[st.k]
           n == NumDocs(fnIn.holds[name])
           seen == [st EXCEPT !.k = st.k + 1, !.tried = Append(st.tried, name)]
       IN  fnOut' = IF fnIn.holds[name] = Unreadable \/ n = 0 \/ name \in fnIn.storeFails
                      THEN << seen >>
                      ELSE << [seen EXCEPT !.total = st.total + n,
                                           !.stored = Append(st.stored, [name |-> name, docs |-> n])] >>
    /\ UNCHANGED << envVars, mfile, files, run, now, pc, err, force, links, i, manifest,
                    itemLocals, counters, addLog, getLog, seenVars, itemsAtStart, envChanged,
                    prevRun, fnIn, saveVars >>

\* lines 185-186
IngestReturn ==
    /\ fnOut # <<>> /\ ~fnOut[1].returned /\ fnOut[1].k > Len(fnOut[1].pdf_files)
    /\ fnOut' = << [fnOut[1] EXCEPT !.returned = TRUE, !.result = fnOut[1].total] >>
    /\ UNCHANGED << envVars, mfile, files, run, now, pc, err, force, links, i, manifest,
                    itemLocals, counters, addLog, getLog, seenVars, itemsAtStart, envChanged,
                    prevRun, fnIn, saveVars >>

NextIngest ==
    \/ IngestStart
    \/ IngestFile
    \/ IngestReturn

SpecIngest == InitIngest /\ [][NextIngest]_vars

\* ------------------------------------------------------------------ claims

\* C4: decide_change answers by the first-match policy for every input: true
\* if force or there is no old record; else true if the new ETag is non-empty
\* and differs from the old one; else true if the new Last-Modified is
\* non-empty and differs; else true if the new Content-Length is non-zero and
\* differs; otherwise false.
C4_DecideChangePolicy ==
    fnOut # <<>> =>
        fnOut[1] = ( \/ fnIn.force
                     \/ fnIn.old = <<>>
                     \/ (fnIn.old # <<>> /\ fnIn.etag # "" /\ fnIn.etag # fnIn.old[1].etag)
                     \/ (fnIn.old # <<>> /\ fnIn.lm # "" /\ fnIn.lm # fnIn.old[1].last_modified)
                     \/ (fnIn.old # <<>> /\ fnIn.len # 0 /\ fnIn.len # fnIn.old[1].content_length) )

\* the fourth rule alone decides: no force, a record, ETag and Last-Modified
\* absent from the response, a new non-zero length
C4_Witness ==
    /\ fnOut = << TRUE >>
    /\ ~fnIn.force /\ fnIn.old # <<>>
    /\ fnIn.etag = "" /\ fnIn.lm = ""
    /\ fnIn.len = 20 /\ fnIn.old[1].content_length = 10

\* --------------------------------------------------- claims about a run

Total == added + updated + skipped + failed

\* C1: counter conservation. When a run has ended, whatever happened to each
\* item's metadata check, download, hash verification and indexing, the four
\* counters sum to the number of listed items.
C1_CounterConservation ==
    pc \in RunEnded => Total = Len(links)

\* C2: no per-item error aborts the run. When a run that obtained its listing
\* has ended, every listed item has been processed, the manifest has been
\* persisted by this run and the counters have been reported, also when
\* hashing, chunking or the Indexing Gateway raised for an item.
C2_ItemErrorDoesNotAbort ==
    (pc \in RunEnded /\ err # "listing") =>
        /\ pc = "done"
        /\ i = Len(links) + 1
        /\ mfile # <<>> /\ load_manifest.checked_at = now

\* C10: a network failure of an item's metadata request ends the item in
\* Failed: such an item reaches no other terminal state (it is not skipped,
\* and not processed as if the server had sent no headers).
C10_MetadataFailureEndsFailed ==
    (pc \in TerminalStates /\ headFault) => pc = "Failed"

\* the answer of the Change Detector for the current item
Detector ==
    decide_change(manifest.items[CurUrl], meta.etag, meta.last_modified, meta.content_length, force)

\* C5: an item goes from MetadataChecked to Skipped exactly when the Change
\* Detector answers false and the local file exists; then no download is
\* issued, nothing is pushed to the Indexing Gateway, the manifest is left as
\* it is and skipped is incremented. In every other case the item goes to
\* Fetching, and from Fetching a GET is always issued.
C5_SkipIffUnchangedAndLocal ==
    [][ /\ pc = "MetadataChecked" =>
            /\ (pc' = "Skipped") <=> (~Detector /\ Exists(CurFile))
            /\ pc' = "Skipped" =>
                  /\ skipped' = skipped + 1
                  /\ UNCHANGED << added, updated, failed, getLog, addLog, manifest, mfile, files >>
            /\ pc' # "Skipped" => (pc' = "Fetching" /\ UNCHANGED << counters, manifest, mfile >>)
        /\ pc = "Fetching" => getLog' = Append(getLog, CurUrl)
      ]_vars

\* an item whose record agrees with the response but whose file is gone is fetched
C5_Witness ==
    /\ pc = "Fetching" /\ ~need /\ ~Exists(CurFile) /\ record_old # <<>>

\* C6: a false-positive change. When an item with a prior record has been
\* downloaded without force and the bytes hash to the record's sha256, it goes
\* to VerifiedUnchanged: nothing is chunked or indexed for it, skipped is
\* incremented, and its record gets the etag, last_modified and content_length
\* just observed and the current time, while sha256 keeps its value.
C6_FalsePositiveRefreshesHeaders ==
    [][ /\ ( /\ pc = "Fetched" /\ pc' # "aborted"
             /\ record_old # <<>> /\ ~force
             /\ sha256_file(files[CurFile]) = record_old[1].sha256 ) =>
            /\ pc' = "VerifiedUnchanged"
            /\ skipped' = skipped + 1
            /\ UNCHANGED << added, updated, failed, addLog, files, mfile >>
            /\ manifest'.items[CurUrl] # <<>>
            /\ manifest'.items[CurUrl][1].etag = meta.etag
            /\ manifest'.items[CurUrl][1].last_modified = meta.last_modified
            /\ manifest'.items[CurUrl][1].content_length = meta.content_length
            /\ manifest'.items[CurUrl][1].updated_at = now
            /\ manifest'.items[CurUrl][1].sha256 = record_old[1].sha256
            /\ \A u \in URLs \ {CurUrl} : manifest'.items[u] = manifest.items[u]
        /\ pc = "VerifiedUnchanged" =>
            /\ pc' \in {"Listed", "AllItems"}
            /\ UNCHANGED << counters, addLog, manifest >>
      ]_vars

\* the record carried another ETag and an earlier time than the ones now stored
C6_Witness ==
    /\ pc = "VerifiedUnchanged"
    /\ record_old[1].etag = "abc" /\ meta.etag = "xyz"
    /\ manifest.items[CurUrl][1].etag = "xyz"
    /\ record_old[1].updated_at < manifest.items[CurUrl][1].updated_at

\* C7: a real change. When an item has been downloaded and has no prior record
\* or its new sha256 differs from the stored one, it goes to Chunking; its
\* documents are pushed to the Indexing Gateway while its record is still the
\* old one; the record is then overwritten with the new etag, last_modified,
\* content_length and sha256, and the item is counted as updated if it had a
\* record and as added otherwise.
C7_RealChangeIndexedThenRecorded ==
    [][ /\ ( /\ pc = "Fetched" /\ pc' # "aborted"
             /\ (record_old = <<>> \/ sha256_file(files[CurFile]) # record_old[1].sha256) ) =>
            /\ pc' = "Chunking"
            /\ new_sha' = sha256_file(files[CurFile])
            /\ UNCHANGED << counters, addLog, manifest, mfile >>
        /\ (pc = "Chunking" /\ pc' # "aborted") =>
            /\ pc' = "Indexed"
            /\ manifest.items[CurUrl] = record_old
            /\ UNCHANGED << counters, manifest, mfile >>
            /\ addLog' = IF NumDocs(files[CurFile]) > 0
                           THEN Append(addLog, [url |-> CurUrl, filename |-> CurFile,
                                                docs |-> NumDocs(files[CurFile])])
                           ELSE addLog
        /\ pc = "Indexed" =>
            /\ pc' = "ManifestUpdated"
            /\ manifest'.items[CurUrl] =
                 << [filename |-> CurFile, etag |-> meta.etag,
                     last_modified |-> meta.last_modified,
                     content_length |-> meta.content_length,
                     sha256 |-> new_sha, updated_at |-> now] >>
            /\ \A u \in URLs \ {CurUrl} : manifest'.items[u] = manifest.items[u]
            /\ IF record_old # <<>>
                 THEN updated' = updated + 1 /\ added' = added
                 ELSE added' = added + 1 /\ updated' = updated
            /\ UNCHANGED << skipped, failed, addLog, mfile >>
      ]_vars

\* Scenario B: the record had ETag abc and another digest; the documents were
\* pushed, the record now has ETag xyz and the new digest, updated is counted
C7_Witness ==
    /\ pc = "ManifestUpdated"
    /\ record_old # <<>> /\ record_old[1].etag = "abc" /\ record_old[1].sha256 # new_sha
    /\ manifest.items[CurUrl][1].etag = "xyz" /\ manifest.items[CurUrl][1].sha256 = new_sha
    /\ updated = 1
    /\ addLog # <<>> /\ addLog[Len(addLog)].url = CurUrl

\* C8: a failed fetch is contained. When the download of an item fails, failed
\* is incremented by one, the manifest (every record, present or absent) and
\* the manifest file are left as they were, nothing is pushed to the Indexing
\* Gateway, and the loop goes on with the next listed item.
C8_FailedFetchContained ==
    [][ /\ (pc = "Fetching" /\ pc' # "Fetched") =>
            /\ pc' = "Failed"
            /\ failed' = failed + 1
            /\ UNCHANGED << added, updated, skipped, addLog, manifest, mfile, i >>
        /\ pc = "Failed" =>
            /\ pc' = IF i < Len(links) THEN "Listed" ELSE "AllItems"
            /\ i' = i + 1
            /\ UNCHANGED << counters, addLog, manifest, mfile >>
      ]_vars

\* the first item's download failed, its record is the one loaded, and the
\* second item is being processed
C8_Witness ==
    /\ pc = "Fetching" /\ i = 2 /\ failed = 1
    /\ manifest.items[links[1].url] # <<>>
    /\ manifest.items = itemsAtStart

\* -------------------------------------------- claims about successive runs

\* a run that issued no download, called the Indexing Gateway never and left
\* every item record as loaded
NoWorkDone == getLog = <<>> /\ addLog = <<>> /\ manifest.items = itemsAtStart

\* C3 as first stated: a run without --force that completes after a completed
\* run, with the remote corpus and the local files unchanged in between,
\* performs zero downloads and zero Indexing Gateway calls and leaves every
\* item record as it was.
C3_SecondRunDoesNothing ==
    (pc = "done" /\ ~force /\ prevRun.ended = "done" /\ prevRun.quiet) => NoWorkDone

\* C3 as amended: the same, for a second run that follows a run completed with
\* failed = 0 and in which head_meta returns for every item the values it
\* returned in the first run.
C3_IdempotentAfterCleanRun ==
    ( /\ pc = "done" /\ ~force
      /\ prevRun.ended = "done" /\ prevRun.quiet
      /\ prevRun.clean /\ sameSeen ) => NoWorkDone

\* the second run skipped both items, one of which the first run had recorded
C3_Witness ==
    /\ pc = "done" /\ ~force /\ run = 2
    /\ prevRun.ended = "done" /\ prevRun.quiet /\ prevRun.clean /\ sameSeen
    /\ Len(links) = 2 /\ skipped = 2
    /\ \E u \in URLs : manifest.items[u] # <<>> /\ manifest.items[u][1].updated_at = now - 1

\* the run left the record of the current item, in memory and in the manifest
\* file, as they were when it started
RecordUntouched ==
    /\ manifest.items[CurUrl] = itemsAtStart[CurUrl]
    /\ load_manifest.items = itemsAtStart

\* C9: when the Indexing Gateway fails for an item, its record
\* is not created or updated, in memory or on disk, and the next run (nothing
\* having changed in between) again finds that the item needs a fetch.
C9_IndexFailureRetriedNextRun ==
    /\ (pc = "aborted" /\ err = "index") => RecordUntouched
    /\ (pc = "MetadataChecked" /\ CurUrl = prevRun.indexFailed /\ prevRun.quiet) =>
           (need \/ ~Exists(CurFile))

\* the part of C9 that the code does deliver: the record is not created or
\* updated; and when the failed run had fetched the item because decide_change
\* answered true without --force, a next run in which head_meta returns the
\* same values for the item again gets true from decide_change.
C9_IndexFailureKeepsRecord ==
    /\ (pc = "aborted" /\ err = "index") => RecordUntouched
    /\ ( /\ pc = "MetadataChecked" /\ CurUrl = prevRun.indexFailed
         /\ prevRun.detected /\ sameMeta ) => need

\* the item had a record with another ETag, its indexing failed in the last
\* run, and this run finds again that it needs a fetch
C9_Witness ==
    /\ pc = "MetadataChecked" /\ ~force
    /\ CurUrl = prevRun.indexFailed /\ prevRun.quiet /\ prevRun.detected /\ sameMeta
    /\ record_old # <<>> /\ record_old[1].etag # meta.etag
    /\ need

\* ------------------------------------------------ claims about degraded inputs

\* C11: when the server answers the metadata request without ETag,
\* Last-Modified and Content-Length, the item is fetched, also when it has a
\* record, its local file exists and the run is not forced: it is never skipped.
C11_NoHeadersAlwaysFetched ==
    ( /\ pc \in ItemStates \ {"Listed"}
      /\ remote[CurUrl].etag = "" /\ remote[CurUrl].last_modified = ""
      /\ remote[CurUrl].content_length = 0
      /\ meta = NoMeta /\ ~headFault ) => pc # "Skipped"

\* the manifest file as it was before save_manifest and as it is after it
TextBeforeSave == mfile
TextAfterSave == << JsonDump(manifest) >>

\* C12: saving the manifest is atomic for readers. At every point of
\* save_manifest a concurrent load_manifest or api_updates, reading the file
\* as it then is, returns what it would return for the complete previous or
\* for the complete new content; it never finds an empty or partial file.
C12_SaveAtomicForReaders ==
    pc = "AllItems" =>
        /\ LoadFile(ManifestText) \in {LoadFile(TextBeforeSave), LoadFile(TextAfterSave)}
        /\ api_updates(ManifestText) \in
              {api_updates(TextBeforeSave), api_updates(TextAfterSave)}

\* ------------------------------------- claims about records and local files

\* every record whose local file exists carries the digest of that file's bytes
RecordsMatchFiles(items) ==
    \A u \in URLs :
        (items[u] # <<>> /\ Exists(items[u][1].filename)) =>
            items[u][1].sha256 = sha256_file(files[items[u][1].filename])

\* C13: between item steps and after every run, for every URL with a record
\* whose local file exists, the record's sha256 is the hash of the bytes
\* stored under the record's filename; also after failed or partial
\* downloads and after forced runs.
C13_RecordShaMatchesFile ==
    /\ pc \in {"Listed", "AllItems", "done"} => RecordsMatchFiles(manifest.items)
    /\ pc \in {"idle", "done"} => RecordsMatchFiles(load_manifest.items)

\* C14: self-healing. When an earlier run crashed or a download failed
\* part-way and left a local file that does not match the item's record, a
\* later run without --force, the remote unchanged, fetches the item again: it
\* does not skip an item whose local file differs from what its record says.
C14_MismatchIsRefetched ==
    ( /\ pc = "Skipped" /\ ~force /\ prevRun.ended # "none" /\ prevRun.quiet
      /\ record_old # <<>> ) =>
        record_old[1].sha256 = sha256_file(files[CurFile])

\* ------------------------------------------- claims about the manifest file

\* the manifest file is missing or does not parse
NoUsableManifest == mfile = <<>> \/ JsonLoad(mfile[1]) = <<>>

\* C15: load_manifest returns the empty skeleton (default source URL, no
\* items) when the manifest file is missing or cannot be parsed, and the run
\* goes on; a run that started from such a file finds that every listed item
\* needs a fetch and skips none.
C15_UnusableManifestIsEmpty ==
    /\ [][ (pc = "idle" /\ pc' # "idle" /\ NoUsableManifest) =>
              (manifest' = EmptyManifest /\ (pc' = "aborted" => err' = "listing")) ]_vars
    /\ []( (pc \in ItemStates \ {"Listed"} /\ NoUsableManifest) =>
              (need /\ record_old = <<>> /\ pc # "Skipped") )

\* a run started from a manifest file cut short by a killed save: the item's
\* local file exists, and the item is fetched as if it had never been seen
C15_Witness ==
    /\ pc = "Fetching" /\ ~force
    /\ mfile # <<>> /\ JsonLoad(mfile[1]) = <<>> /\ Len(mfile[1]) > 0
    /\ Exists(CurFile) /\ need

\* the URLs of the listing as this run parsed it
ListedUrls == { links[k].url : k \in 1..Len(links) }

\* C16: records of vanished URLs are retained. For every URL that had a record
\* when the run started and is not in the listing, the record in memory, and
\* the one persisted when the run is done, is the one loaded; and no URL that
\* had a record is ever without one.
C16_VanishedRecordsRetained ==
    pc # "idle" =>
        \A u \in URLs :
            itemsAtStart[u] # <<>> =>
                /\ manifest.items[u] # <<>>
                /\ u \notin ListedUrls => manifest.items[u] = itemsAtStart[u]
                /\ pc = "done" =>
                      /\ load_manifest.items[u] # <<>>
                      /\ u \notin ListedUrls => load_manifest.items[u] = itemsAtStart[u]

\* a run over a listing that no longer holds one recorded URL has updated the
\* other and persisted the manifest: the vanished URL's record is still there
C16_Witness ==
    /\ pc = "done" /\ Len(links) = 1 /\ updated = 1
    /\ load_manifest.checked_at = now
    /\ \E u \in URLs \ ListedUrls : itemsAtStart[u] # <<>> /\ load_manifest.items[u] = itemsAtStart[u]

\* C17: the manifest is persisted exactly once per run, after every listed
\* item has reached a terminal state: the manifest file is written only by
\* the step that follows the last item, and a run that obtained its listing
\* has written it when it ends.
C17_PersistedOncePerRun ==
    /\ [][ mfile' # mfile => (pc = "AllItems" /\ i = Len(links) + 1 /\ pc' = "done") ]_vars
    /\ []( (pc \in RunEnded /\ err # "listing") =>
              (mfile # <<>> /\ load_manifest.checked_at = now) )

\* the part of C17 that holds in every run: the manifest file is written only
\* after all items, by one step, and not again before the run ends
C17_SaveOnlyAfterAllItems ==
    [][ /\ mfile' # mfile => (pc = "AllItems" /\ i = Len(links) + 1 /\ pc' = "done")
        /\ pc = "done" => (pc' = "idle" /\ mfile' = mfile) ]_vars

\* --------------------------------------------------- claims about chunking

\* the chunks produced so far, and whether every paragraph fits the chunk size
ChunksOut == IF fnOut = <<>> THEN <<>> ELSE fnOut[1].b.chunks
ParasFit ==
    fnOut # <<>> /\ \A k \in 1..Len(fnOut[1].paras) : Len(fnOut[1].paras[k].p_txt) <= fnIn.chunk_size

\* C18: chunk-size bound. When every paragraph is at most chunk_size long,
\* every chunk merge_paras_to_chunks produces is at most chunk_size + overlap
\* long.
C18_ChunkSizeBound ==
    ParasFit => \A c \in 1..Len(ChunksOut) : Len(ChunksOut[c].text) <= fnIn.chunk_size + fnIn.overlap

\* what the code does guarantee for such paragraphs: a chunk exceeds
\* chunk_size + overlap by at most the joining newline
C18_ChunkSizeBoundWithNewline ==
    ParasFit => \A c \in 1..Len(ChunksOut) : Len(ChunksOut[c].text) <= fnIn.chunk_size + fnIn.overlap + 1

\* a page range within the document: 0 <= start <= end <= page_count - 1
InDocument(start, end) == 0 <= start /\ start <= end /\ end <= Len(fnIn.pages) - 1

\* C19: page-range invariant. Every chunk produced from a document's pages
\* has start_page <= end_page, both within 0..page_count-1, and so has the
\* accumulator after every pass of the merge loop.
C19_PageRangeInvariant ==
    fnOut # <<>> =>
        /\ \A c \in 1..Len(ChunksOut) : InDocument(ChunksOut[c].start_page, ChunksOut[c].end_page)
        /\ fnOut[1].k > 1 => InDocument(fnOut[1].b.buf_start, fnOut[1].b.buf_end)

\* a document of three pages gave a chunk that starts on one page and ends on
\* a later one, after an earlier chunk was closed
C19_Witness ==
    /\ fnOut # <<>> /\ fnOut[1].done /\ Len(fnIn.pages) = 3
    /\ \E c \in 2..Len(ChunksOut) : ChunksOut[c].start_page < ChunksOut[c].end_page

\* the merge loop is at a paragraph with a non-empty accumulator
AtParagraph ==
    fnOut # <<>> /\ ~fnOut[1].done /\ fnOut[1].k <= Len(fnOut[1].paras) /\ fnOut[1].b.buf_text # <<>>

\* the accumulator, emitted as a chunk
Emitted(b) == [start_page |-> b.buf_start, end_page |-> b.buf_end, text |-> strip(b.buf_text)]

\* the accumulator after paragraph p was appended
Appended(b, p) ==
    [chunks |-> b.chunks, buf_text |-> b.buf_text \o <<"\n">> \o p.p_txt,
     buf_start |-> b.buf_start, buf_end |-> Max(b.buf_end, p.p_end)]

\* the accumulator seeded with the end of the closed text, and with p alone
Seeded(b, p, overlap) ==
    [chunks |-> Append(b.chunks, Emitted(b)),
     buf_text |-> LastChars(b.buf_text, overlap) \o <<"\n">> \o p.p_txt,
     buf_start |-> Min(b.buf_end, p.p_start), buf_end |-> Max(b.buf_end, p.p_end)]
Restarted(b, p) ==
    [chunks |-> Append(b.chunks, Emitted(b)),
     buf_text |-> p.p_txt, buf_start |-> p.p_start, buf_end |-> p.p_end]

\* the end of the loop: a non-empty accumulator is flushed
FlushRule ==
    (fnOut # <<>> /\ ~fnOut[1].done /\ fnOut[1].k > Len(fnOut[1].paras)) =>
        /\ fnOut'[1].done
        /\ fnOut'[1].b.chunks = IF fnOut[1].b.buf_text # <<>>
                                  THEN Append(fnOut[1].b.chunks, Emitted(fnOut[1].b))
                                  ELSE fnOut[1].b.chunks

\* C20: chunk merging. A paragraph p met with a non-empty accumulator is
\* appended (joined by a newline, end_page the maximum) iff the accumulator's
\* length + 1 + p's length is at most chunk_size; otherwise the accumulator is
\* emitted and the new one is, when the closed text is longer than overlap,
\* its last overlap characters + newline + p with start_page the minimum of
\* the closed end_page and p's start_page and end_page the maximum of the
\* closed end_page and p's end_page, and just p otherwise; a non-empty
\* accumulator is flushed at the end.
C20_MergeRule ==
    [][ /\ AtParagraph =>
            LET b == fnOut[1].b
                p == fnOut[1].paras[fnOut[1].k]
            IN  fnOut'[1].b =
                  IF Len(b.buf_text) + 1 + Len(p.p_txt) <= fnIn.chunk_size THEN Appended(b, p)
                  ELSE IF Len(b.buf_text) > fnIn.overlap THEN Seeded(b, p, fnIn.overlap)
                  ELSE Restarted(b, p)
        /\ FlushRule
      ]_vars

\* C20 as amended: the same, the new accumulator being seeded with the end of
\* the closed text when overlap is positive and the closed text is longer
\* than overlap, and being just p otherwise.
C20_MergeRuleOverlapPositive ==
    [][ /\ AtParagraph =>
            LET b == fnOut[1].b
                p == fnOut[1].paras[fnOut[1].k]
            IN  fnOut'[1].b =
                  IF Len(b.buf_text) + 1 + Len(p.p_txt) <= fnIn.chunk_size THEN Appended(b, p)
                  ELSE IF fnIn.overlap > 0 /\ Len(b.buf_text) > fnIn.overlap
                       THEN Seeded(b, p, fnIn.overlap)
                  ELSE Restarted(b, p)
        /\ FlushRule
      ]_vars

\* a chunk was closed on an earlier page and the accumulator was seeded with
\* its last two characters, a newline and the paragraph of a later page
C20_Witness ==
    /\ fnOut # <<>> /\ fnOut[1].k > 1 /\ ~fnOut[1].done
    /\ fnIn.overlap = 2
    /\ Len(fnOut[1].b.chunks) > 0
    /\ LET b == fnOut[1].b
           p == fnOut[1].paras[fnOut[1].k - 1]
       IN  /\ b.buf_text = LastChars(b.chunks[Len(b.chunks)].text, 2) \o <<"\n">> \o p.p_txt
           /\ b.buf_start < p.p_start
           /\ b.buf_end = p.p_end

\* the texts of paragraphs a..z joined by newlines, as lines 93 and 110 join them
RECURSIVE JoinParas(_, _, _)
JoinParas(paras, a, z) ==
    IF a > z THEN <<>>
    ELSE IF a = z THEN paras[a].p_txt
    ELSE paras[a].p_txt \o <<"\n">> \o JoinParas(paras, a + 1, z)

\* text t ends with s
EndsWith(t, s) == Len(s) <= Len(t) /\ SubSeq(t, Len(t) - Len(s) + 1, Len(t)) = s

\* the texts put out so far: the chunks, and the accumulator as line 115 would
\* flush it
TextsOut ==
    IF fnOut = <<>> THEN <<>>
    ELSE [c \in 1..Len(fnOut[1].b.chunks) |-> fnOut[1].b.chunks[c].text] \o
         (IF ~fnOut[1].done /\ fnOut[1].b.buf_text # <<>>
          THEN << strip(fnOut[1].b.buf_text) >> ELSE <<>>)

\* text c holds paragraphs a..z whole and in order: it ends with their join;
\* the first text holds nothing else, a later one at most an overlap prefix
\* (the end of the text before it and a newline); a paragraph longer than
\* chunk_size shares its text with no other paragraph
HoldsParas(texts, c, paras, a, z) ==
    LET body == JoinParas(paras, a, z)
        plen == Len(texts[c]) - Len(body)
    IN  /\ EndsWith(texts[c], body)
        /\ plen > 0 =>
              /\ c > 1 /\ plen <= fnIn.overlap + 1
              /\ texts[c][plen] = "\n"
              /\ EndsWith(texts[c - 1], SubSeq(texts[c], 1, plen - 1))
        /\ \A j \in a..z : Len(paras[j].p_txt) > fnIn.chunk_size => a = z

\* texts c.. hold paragraphs a..n, each paragraph in exactly one text
RECURSIVE Covers(_, _, _, _, _)
Covers(texts, c, paras, a, n) ==
    IF c > Len(texts) THEN a = n + 1
    ELSE \E z \in a..n : HoldsParas(texts, c, paras, a, z) /\ Covers(texts, c + 1, paras, z + 1, n)

\* C21: no paragraph is split, truncated or dropped by merging. After every
\* pass of the loop and at the end, the paragraphs consumed so far appear
\* whole, in input order, each in exactly one output text outside that text's
\* overlap prefix; a paragraph longer than chunk_size is put out whole in a
\* text to which no other paragraph is appended.
C21_ParagraphsKeptWhole ==
    fnOut # <<>> => Covers(TextsOut, 1, fnOut[1].paras, 1, fnOut[1].k - 1)

\* a paragraph longer than chunk_size, met after a chunk was closed and
\* followed by another paragraph, was put out whole behind the overlap prefix
C21_Witness ==
    /\ fnOut # <<>> /\ fnOut[1].done /\ fnIn.overlap = 2
    /\ \E c \in 2..(Len(ChunksOut) - 1), j \in 2..(Len(fnOut[1].paras) - 1) :
          /\ Len(fnOut[1].paras[j].p_txt) > fnIn.chunk_size
          /\ EndsWith(ChunksOut[c].text, <<"\n">> \o fnOut[1].paras[j].p_txt)
          /\ Len(ChunksOut[c].text) = Len(fnOut[1].paras[j].p_txt) + 3

\* the first and the last page (0-based) a page_range names
FirstPage(page_range) == page_range[2] - 1
LastPage(page_range) == IF Len(page_range) = 4 THEN page_range[4] - 1 ELSE page_range[2] - 1

\* the page ranges of a list of metadata ascend
Ascending(metadatas) ==
    \A c \in 1..(Len(metadatas) - 1) :
        /\ FirstPage(metadatas[c].page_range) <= FirstPage(metadatas[c + 1].page_range)
        /\ LastPage(metadatas[c].page_range) <= LastPage(metadatas[c + 1].page_range)

\* C22: within one file, chunks reach the Indexing Gateway in ascending page
\* order: consecutive chunks have start_page and end_page non-decreasing, the
\* documents made of them are in the chunks' order with the chunks' page
\* ranges, and add_documents passes texts and metadata on in that order.
C22_AscendingPageOrder ==
    fnOut # <<>> =>
        /\ \A c \in 1..(Len(ChunksOut) - 1) :
              /\ ChunksOut[c].start_page <= ChunksOut[c + 1].start_page
              /\ ChunksOut[c].end_page <= ChunksOut[c + 1].end_page
        /\ fnOut[1].docs # <<>> =>
              LET docs == fnOut[1].docs[1]
              IN  /\ Len(docs) = Len(ChunksOut)
                  /\ \A c \in 1..Len(docs) :
                        /\ docs[c].page_content = ChunksOut[c].text
                        /\ FirstPage(docs[c].metadata.page_range) = ChunksOut[c].start_page
                        /\ LastPage(docs[c].metadata.page_range) = ChunksOut[c].end_page
        /\ fnOut[1].sent # <<>> =>
              LET docs == fnOut[1].docs[1]
                  sent == fnOut[1].sent[1]
              IN  /\ Len(sent.texts) = Len(docs) /\ Len(sent.metadatas) = Len(docs)
                  /\ \A c \in 1..Len(docs) :
                        /\ sent.texts[c] = docs[c].page_content
                        /\ sent.metadatas[c] = docs[c].metadata
                  /\ Ascending(sent.metadatas)

\* three documents of a three-page file were passed on: the first of page 1,
\* the last of pages 2-3
C22_Witness ==
    /\ fnOut # <<>> /\ fnOut[1].sent # <<>>
    /\ Len(fnOut[1].sent[1].metadatas) = 3
    /\ fnOut[1].sent[1].metadatas[1].page_range = <<"p.", 1>>
    /\ fnOut[1].sent[1].metadatas[3].page_range = <<"p.", 2, "-", 3>>

\* ------------------------------------------------ claims about interruption

\* this run follows the run that was killed, nothing having changed in
\* between, and was started with the same --force flag
IsRerun ==
    /\ interrupted # <<>> /\ interrupted[1].run = run - 1
    /\ prevRun.quiet /\ force = interrupted[1].force

\* the headers the remote serves for u, as head_meta returns them
ServedMeta(u) ==
    [etag |-> remote[u].etag, last_modified |-> remote[u].last_modified,
     content_length |-> remote[u].content_length]

\* the record an uninterrupted run writes for u, but for its time
SameButTime(rec, u) ==
    /\ lastSeen[u] # <<>>
    /\ [rec EXCEPT !.updated_at = 0] =
         NewRecord(build_local_name(u, AnchorText(u)), lastSeen[u][1],
                   sha256_file(remote[u].body), 0)

\* C23: interruption is safe. When a run is killed at an item boundary, the
\* persisted manifest is the one it loaded; a re-run, the remote unchanged and
\* the metadata requests answered as before with the headers the remote
\* serves, finds that every item the killed run had added or updated needs a
\* fetch, and when it ends without a failure the records of those items are
\* the ones an uninterrupted run would have written, up to their time.
C23_InterruptedRunRedone ==
    /\ (pc = "aborted" /\ err = "killed") => load_manifest.items = itemsAtStart
    /\ ( /\ IsRerun /\ pc \in ItemStates \ {"Listed"} /\ sameMeta /\ meta = ServedMeta(CurUrl)
         /\ CurUrl \in interrupted[1].changed ) => (need /\ pc # "Skipped")
    /\ ( /\ IsRerun /\ pc = "done" /\ failed = 0 /\ sameSeen ) =>
           \A u \in interrupted[1].changed \cap ListedUrls :
               /\ manifest.items[u] # <<>>
               /\ SameButTime(manifest.items[u][1], u)

\* ------------------------------------------------ claims about the counters

\* what the counting of an item as added, skipped or failed tells about it
CountedRight ==
    /\ added' # added =>
          (added' = added + 1 /\ itemsAtStart[CurUrl] = <<>>)
    /\ skipped' # skipped =>
          /\ skipped' = skipped + 1
          /\ \/ (pc = "MetadataChecked" /\ getLog' = getLog)
             \/ /\ itemsAtStart[CurUrl] # <<>>
                /\ sha256_file(files[CurFile]) = itemsAtStart[CurUrl][1].sha256
    /\ failed' # failed =>
          (failed' = failed + 1 /\ pc = "Fetching" /\ pc' = "Failed")

\* C24 as first stated: an item is counted as added only if it had no record
\* at run start; as updated only if it had a record and the hash of the
\* downloaded bytes differs from the stored sha256; as skipped only if it was
\* not fetched or its hash equals the stored one; as failed only if its fetch
\* failed.
C24_CounterMeaning ==
    [][ /\ pc \in ItemStates => CountedRight
        /\ (pc \in ItemStates /\ updated' # updated) =>
              /\ updated' = updated + 1
              /\ itemsAtStart[CurUrl] # <<>>
              /\ new_sha # itemsAtStart[CurUrl][1].sha256
      ]_vars

\* C24 as amended: the same, an item being counted as updated only if it had
\* a record and either the hash of the downloaded bytes differs from the
\* stored sha256 or the run is forced.
C24_CounterMeaningUnlessForced ==
    [][ /\ pc \in ItemStates => CountedRight
        /\ (pc \in ItemStates /\ updated' # updated) =>
              /\ updated' = updated + 1
              /\ itemsAtStart[CurUrl] # <<>>
              /\ (force \/ new_sha # itemsAtStart[CurUrl][1].sha256)
      ]_vars

\* a forced run has counted as updated an item whose downloaded bytes hash to
\* the stored sha256, after counting one whose download failed
C24_Witness ==
    /\ pc = "ManifestUpdated" /\ force /\ i = 2
    /\ failed = 1 /\ updated = 1
    /\ itemsAtStart[CurUrl] # <<>> /\ new_sha = itemsAtStart[CurUrl][1].sha256

\* C25: with --force the cached headers are ignored. Every listed item of a
\* forced run is downloaded, whatever its record and the headers returned;
\* every item downloaded successfully is re-embedded and its record is
\* rewritten; no item of a forced run is skipped, before or after the download.
C25_ForceRefetchesAll ==
    /\ [][ /\ (force /\ pc = "MetadataChecked") => (need /\ pc' = "Fetching")
           /\ (force /\ pc = "Fetching") => getLog' = Append(getLog, CurUrl)
           /\ (force /\ pc = "Fetched" /\ pc' # "aborted") =>
                 (pc' = "Chunking" /\ UNCHANGED << counters, manifest >>)
           /\ (force /\ pc = "Chunking" /\ pc' # "aborted") =>
                 /\ pc' = "Indexed"
                 /\ addLog' = IF NumDocs(files[CurFile]) > 0
                                THEN Append(addLog, [url |-> CurUrl, filename |-> CurFile,
                                                     docs |-> NumDocs(files[CurFile])])
                                ELSE addLog
           /\ (force /\ pc = "Indexed") =>
                 /\ pc' = "ManifestUpdated"
                 /\ manifest'.items[CurUrl] =
                      << NewRecord(CurFile, meta, sha256_file(files[CurFile]), now) >>
         ]_vars
    /\ []( force => (skipped = 0 /\ pc \notin {"Skipped", "VerifiedUnchanged"}) )

\* a forced run has downloaded and re-embedded an item whose record agrees
\* with the headers returned and with the bytes, and has rewritten the record
C25_Witness ==
    /\ pc = "ManifestUpdated" /\ force /\ i = 1
    /\ record_old # <<>>
    /\ record_old[1].etag = meta.etag /\ record_old[1].last_modified = meta.last_modified
    /\ record_old[1].content_length = meta.content_length /\ meta.etag # ""
    /\ record_old[1].sha256 = new_sha
    /\ addLog # <<>> /\ addLog[Len(addLog)].url = CurUrl
    /\ manifest.items[CurUrl][1].updated_at > record_old[1].updated_at

\* ------------------------------------------------ claims about ownership

\* C26: manifest records are mutated only by the orchestrator, and only after
\* an item's successful verify or chunk/index step: within a run the records
\* in memory change only on the steps into VerifiedUnchanged and
\* ManifestUpdated, and the records of the manifest file change only when the
\* run saves them; no other operation, the front end's delete endpoint
\* included, changes or removes a record of the file.
C26_OnlyOrchestratorMutatesRecords ==
    [][ /\ (pc \in ItemStates /\ manifest'.items # manifest.items) =>
              \/ (pc = "Fetched" /\ pc' = "VerifiedUnchanged")
              \/ (pc = "Indexed" /\ pc' = "ManifestUpdated")
        /\ LoadFile(mfile').items # LoadFile(mfile).items =>
              (pc = "AllItems" /\ pc' = "done" /\ LoadFile(mfile').items = manifest.items)
      ]_vars

\* ------------------------------------------------ claims about the listing

\* the <a> elements of the page that link a PDF, and the URL each links
PdfAnchors == { n \in 1..Len(fnIn) : fnIn[n].href # NoHref /\ HasPdf(HrefStrip(fnIn[n].href)) }
UrlOf(n) == urljoin(BaseUrl, HrefStrip(fnIn[n].href))

\* the first <a> of the page that links url
FirstAnchor(url) ==
    CHOOSE n \in PdfAnchors : UrlOf(n) = url /\ \A m \in PdfAnchors : UrlOf(m) = url => n <= m

\* C27: parse_pdf_links returns each PDF URL of the page once and only once,
\* in the order of the URLs' first appearance in the page, each paired with
\* the anchor text of its first occurrence.
C27_LinksDeduplicatedInOrder ==
    (fnOut # <<>> /\ fnOut[1].done) =>
        LET uniq == fnOut[1].uniq
        IN  /\ \A j, k \in 1..Len(uniq) : j # k => uniq[j].url # uniq[k].url
            /\ { uniq[k].url : k \in 1..Len(uniq) } = { UrlOf(n) : n \in PdfAnchors }
            /\ \A k \in 1..Len(uniq) : uniq[k].text = get_text(fnIn[FirstAnchor(uniq[k].url)].text)
            /\ \A j, k \in 1..Len(uniq) :
                  j < k => FirstAnchor(uniq[j].url) < FirstAnchor(uniq[k].url)

\* the page links x.pdf of its own directory, then guide.pdf, then the same
\* x.pdf again written another way and with another text: two links are
\* returned, x.pdf first with its first text
C27_Witness ==
    /\ fnOut # <<>> /\ fnOut[1].done
    /\ Len(fnIn) = 3 /\ PdfAnchors = {1, 2, 3}
    /\ UrlOf(1) = UrlOf(3) /\ UrlOf(2) # UrlOf(1)
    /\ fnIn[1].href # fnIn[3].href /\ get_text(fnIn[1].text) # get_text(fnIn[3].text)
    /\ Len(fnOut[1].uniq) = 2
    /\ fnOut[1].uniq[1] =
          [url |-> <<"industries", "mining-energy-water", "resources", "safety-health",
                     "mining", "legislation-standards", "x.pdf">>,
           text |-> "Download"]

\* ------------------------------------------------ claims about retrying

\* the attempts made so far, and whether http_get has ended
Attempts == IF fnOut = <<>> THEN 0 ELSE Cardinality({ c \in 1..Len(fnOut[1].calls) : fnOut[1].calls[c][1] = "get" })
HttpEnded == fnOut # <<>> /\ fnOut[1].at \in {"returned", "raised"}

\* at most retries attempts; it returns at the first attempt answered 200 and
\* raises, after retries attempts, the error of the last one
AttemptsRule ==
    /\ Attempts <= fnIn.retries
    /\ (fnOut # <<>> /\ fnOut[1].at = "returned") =>
          /\ fnIn.answers[Attempts] = 200 /\ fnOut[1].result = <<"resp", 200>>
          /\ \A n \in 1..(Attempts - 1) : fnIn.answers[n] # 200
    /\ (fnOut # <<>> /\ fnOut[1].at = "raised") =>
          /\ Attempts = fnIn.retries
          /\ \A n \in 1..Attempts : fnIn.answers[n] # 200
          /\ Attempts > 0 => fnOut[1].result = ErrorOf(fnIn.answers[Attempts])

\* C28: bounded retry. http_get makes at most retries attempts, returns at
\* the first attempt answered 200 without a further attempt, raises the error
\* of the last attempt after all have failed, and sleeps only between two
\* attempts: every sleep follows an attempt and is followed by one.
C28_BoundedRetry ==
    /\ AttemptsRule
    /\ HttpEnded =>
          \A c \in 1..Len(fnOut[1].calls) :
              fnOut[1].calls[c][1] = "sleep" =>
                  /\ c > 1 /\ fnOut[1].calls[c - 1][1] = "get"
                  /\ c < Len(fnOut[1].calls) /\ fnOut[1].calls[c + 1][1] = "get"

\* what the code does keep: the attempts are bounded and the result is as
\* stated; a sleep follows every failed attempt, the last one included
C28_BoundedAttempts ==
    /\ AttemptsRule
    /\ HttpEnded =>
          \A c \in 1..Len(fnOut[1].calls) :
              fnOut[1].calls[c][1] = "sleep" => (c > 1 /\ fnOut[1].calls[c - 1][1] = "get")

\* ------------------------------------------------ claims about head_meta

\* the three fields as the claim reads them off a response's headers: a
\* header that is missing (or a length that is no number) gives "" or 0
ReadOff(h, out) ==
    /\ h.ETag \in {Absent, ""} => out.etag = ""
    /\ h.ETag \in {"\"abc\"", "abc"} => out.etag = "abc"
    /\ h.LastModified \in {Absent, ""} => out.last_modified = ""
    /\ h.LastModified = "Mon" => out.last_modified = "Mon"
    /\ h.ContentLength \in {Absent, "ten", ""} => out.content_length = 0
    /\ h.ContentLength = "10" => out.content_length = 10

\* C29: head_meta always returns a triple. A HEAD answered 200 is read off; a
\* HEAD answered otherwise is followed by one GET whose headers are read off
\* instead; a field missing or unparsable comes back as "" or 0; a request
\* that raises gives ("", "", 0).
C29_HeadMetaTotal ==
    fnOut # <<>> =>
        LET out == fnOut[1].result
            req == fnOut[1].requests
        IN  /\ out \in [etag : {"", "abc"}, last_modified : {"", "Mon"}, content_length : {0, 10}]
            /\ fnIn.head.status = 0 => (out = NoMeta /\ req = <<"HEAD">>)
            /\ fnIn.head.status = 200 => (ReadOff(fnIn.head.headers, out) /\ req = <<"HEAD">>)
            /\ fnIn.head.status \notin {0, 200} =>
                  /\ req = <<"HEAD", "GET">>
                  /\ fnIn.get.status = 0 => out = NoMeta
                  /\ fnIn.get.status # 0 => ReadOff(fnIn.get.headers, out)

\* a HEAD refused without headers, the GET answered with an ETag and a
\* Content-Length that is no number
C29_Witness ==
    /\ fnOut # <<>>
    /\ fnIn.head = [status |-> 404, headers |-> NoRawHeaders]
    /\ fnIn.get.status = 200 /\ fnIn.get.headers.ETag = "\"abc\""
    /\ fnIn.get.headers.ContentLength = "ten"
    /\ fnOut[1].requests = <<"HEAD", "GET">>
    /\ fnOut[1].result.etag = "abc" /\ fnOut[1].result.content_length = 0

\* ------------------------------------------------ claims about empty documents

\* the downloaded file of the current item yields no document
NoChunks == files[CurFile] # NoFile /\ NumDocs(files[CurFile]) = 0

\* C30: zero chunks is not an error. When the downloaded file of a new or
\* changed item yields no chunks and chunking does not raise, nothing is
\* pushed to the Indexing Gateway and no failure is counted; the record is
\* then written with the headers just read and the sha256 of the file, and
\* exactly one of added and updated grows by one.
C30_ZeroChunksNotAnError ==
    [][ /\ (pc = "Chunking" /\ NoChunks /\ pc' # "aborted") =>
            /\ pc' = "Indexed"
            /\ addLog' = addLog
            /\ failed' = failed /\ err' = err
        /\ (pc = "Indexed" /\ NoChunks) =>
            /\ pc' = "ManifestUpdated"
            /\ manifest'.items[CurUrl] # <<>>
            /\ manifest'.items[CurUrl][1].etag = meta.etag
            /\ manifest'.items[CurUrl][1].last_modified = meta.last_modified
            /\ manifest'.items[CurUrl][1].content_length = meta.content_length
            /\ manifest'.items[CurUrl][1].sha256 = sha256_file(files[CurFile])
            /\ addLog' = addLog
            /\ failed' = failed /\ skipped' = skipped
            /\ (added' + updated') = (added + updated) + 1
      ]_vars

\* a document without text has been downloaded and recorded: it is counted,
\* nothing of it was ever pushed and no failure is counted
C30_Witness ==
    /\ pc = "ManifestUpdated"
    /\ NoChunks
    /\ manifest.items[CurUrl] # <<>>
    /\ manifest.items[CurUrl][1].sha256 = sha256_file(files[CurFile])
    /\ added + updated = 1 /\ failed = 0
    /\ \A k \in 1..Len(addLog) : addLog[k].url # CurUrl

\* ------------------------------------------------ claims about paragraphs

\* a text without its blanks and newlines
RECURSIVE Solid(_)
Solid(t) ==
    IF t = <<>> THEN <<>>
    ELSE (IF IsSpace(Head(t)) THEN <<>> ELSE << Head(t) >>) \o Solid(Tail(t))

\* the texts of the paragraphs of page idx, one after the other in their order
RECURSIVE TextOfPage(_, _)
TextOfPage(paras, idx) ==
    IF paras = <<>> THEN <<>>
    ELSE (IF Head(paras).p_start = idx THEN Head(paras).p_txt ELSE <<>>)
         \o TextOfPage(Tail(paras), idx)

\* C31: paragraphs_from_pages yields only non-empty paragraphs, without a
\* blank line inside; each has start_page = end_page = the index of a page
\* of the input; they are ordered by page, and what the paragraphs of one page
\* hold, in their order, is what the page holds (so a page without text
\* contributes none).
C31_ParagraphsOfPages ==
    fnOut # <<>> =>
        LET paras == fnOut[1]
        IN  /\ \A a \in 1..Len(paras) :
                  /\ paras[a].p_txt # <<>>
                  /\ ~IsSpace(paras[a].p_txt[1])
                  /\ ~IsSpace(paras[a].p_txt[Len(paras[a].p_txt)])
                  /\ FirstBlankLine(paras[a].p_txt) = 0
                  /\ paras[a].p_start = paras[a].p_end
                  /\ paras[a].p_start \in 0..(Len(fnIn) - 1)
            /\ \A a, b \in 1..Len(paras) : a < b => paras[a].p_start <= paras[b].p_start
            /\ \A k \in 1..Len(fnIn) : Solid(TextOfPage(paras, k - 1)) = Solid(fnIn[k])

\* an empty page, a page of blanks only and a page with a blank part between
\* two paragraphs: the two paragraphs of the third page are all there is
C31_Witness ==
    /\ fnOut # <<>>
    /\ fnIn = << <<>>, <<" ">>, <<"a", "\n", "\n", " ", "\n", "\n", "b">> >>
    /\ fnOut[1] = << [p_start |-> 2, p_end |-> 2, p_txt |-> <<"a">>],
                     [p_start |-> 2, p_end |-> 2, p_txt |-> <<"b">>] >>

\* ------------------------------------------------ claims about metadata

\* C32: every document of a file carries the page range of its chunk
\* (start, end, text), "p.{start+1}" when start = end and
\* "p.{start+1}-{end+1}" otherwise, and all documents of the file carry the
\* same filename (the file's base name), the same source (file:// and the
\* absolute path) and the same rs_number.
C32_ChunkMetadata ==
    (fnOut # <<>> /\ fnOut[1].docs # <<>>) =>
        LET docs == fnOut[1].docs[1]
        IN  /\ Len(docs) = Len(ChunksOut)
            /\ \A c \in 1..Len(docs) :
                  /\ ChunksOut[c].start_page = ChunksOut[c].end_page =>
                        docs[c].metadata.page_range = <<"p.", ChunksOut[c].start_page + 1>>
                  /\ ChunksOut[c].start_page # ChunksOut[c].end_page =>
                        docs[c].metadata.page_range =
                            <<"p.", ChunksOut[c].start_page + 1, "-", ChunksOut[c].end_page + 1>>
                  /\ docs[c].metadata.filename = fnIn.path.name
                  /\ docs[c].metadata.source[1] = "file://"
                  /\ docs[c].metadata.source[2] = "/"
                  /\ docs[c].metadata.source[Len(docs[c].metadata.source)] = fnIn.path.name
            /\ \A c, d \in 1..Len(docs) :
                  /\ docs[c].metadata.filename = docs[d].metadata.filename
                  /\ docs[c].metadata.source = docs[d].metadata.source
                  /\ docs[c].metadata.rs_number = docs[d].metadata.rs_number

\* the documents of RS12_guide.pdf: one of a single page, one of two pages,
\* both with the file's RS number
C32_Witness ==
    /\ fnOut # <<>> /\ fnOut[1].docs # <<>>
    /\ fnIn.path.name = <<"RS12", "_", "guide.pdf">>
    /\ \E c, d \in 1..Len(fnOut[1].docs[1]) :
          /\ Len(fnOut[1].docs[1][c].metadata.page_range) = 2
          /\ Len(fnOut[1].docs[1][d].metadata.page_range) = 4
          /\ fnOut[1].docs[1][c].metadata.rs_number = "RS12"
          /\ fnOut[1].docs[1][d].metadata.rs_number = "RS12"

\* ------------------------------------------------ claims about ingest_directory

\* the chunks of the files of a set whose add_documents call returns
RECURSIVE StoredChunks(_)
StoredChunks(names) ==
    IF names = {} THEN 0
    ELSE LET f == CHOOSE x \in names : TRUE
         IN  (IF fnIn.holds[f] # Unreadable /\ f \notin fnIn.storeFails
              THEN NumDocs(fnIn.holds[f]) ELSE 0) + StoredChunks(names \ {f})

\* the PDF files of the directory
PdfNames == { f \in DirEntries : LowerEndsPdf(f) /\ \E k \in 1..Len(fnIn.entries) : fnIn.entries[k] = f }

\* C33: ingest_directory tolerates a bad document. When it has returned for
\* an existing directory, every PDF file of the directory has been taken up,
\* whether or not chunking or indexing raised for another one, and the total
\* returned is the sum of the chunk counts of exactly the files whose
\* add_documents call returned.
C33_BadDocumentTolerated ==
    (fnOut # <<>> /\ fnOut[1].returned) =>
        /\ fnIn.isdir =>
              /\ { fnOut[1].tried[k] : k \in 1..Len(fnOut[1].tried) } = PdfNames
              /\ Len(fnOut[1].tried) = Cardinality(PdfNames)
              /\ fnOut[1].result = StoredChunks(PdfNames)
              /\ { fnOut[1].stored[k].name : k \in 1..Len(fnOut[1].stored) } =
                     { f \in PdfNames : /\ fnIn.holds[f] # Unreadable /\ f \notin fnIn.storeFails
                                        /\ NumDocs(fnIn.holds[f]) > 0 }
        /\ ~fnIn.isdir => (fnOut[1].result = 0 /\ fnOut[1].tried = <<>>)

\* the first PDF cannot be read, the second is stored with its two chunks
\* although the first failed; a third entry is no PDF
C33_Witness ==
    /\ fnOut # <<>> /\ fnOut[1].returned
    /\ fnIn.isdir /\ fnIn.entries = <<"a.pdf", "notes.txt", "B.PDF">>
    /\ fnIn.holds["a.pdf"] = Unreadable /\ fnIn.holds["B.PDF"] = "c1"
    /\ fnOut[1].tried = <<"a.pdf", "B.PDF">>
    /\ fnOut[1].stored = << [name |-> "B.PDF", docs |-> 2] >>
    /\ fnOut[1].result = 2

\* ------------------------------------------------ claims about lost updates

\* the record of u is in the manifest file as it is now
OnFile(file, u) == LoadFile(file).items[u] # <<>>

\* the front end's request opened and wrote the manifest file between the
\* load_manifest of main's current run and that run's save_manifest
FrontEndBetween ==
    deleting # <<>> /\ deleting[1].at = "answered" /\ run > 0 /\ deleting[1].wroteIn = run

\* a second sync run opened and wrote the manifest file in that interval
PeerBetween ==
    peer # <<>> /\ peer[1].at = "saved" /\ run > 0 /\ peer[1].wroteIn = run

\* the manifest file reflects both writers: it parses and holds every record
\* main assigned in this run; a record the front end removed is not in it,
\* and a record the second run assigned is, unless main assigned that URL's
\* record itself
ReflectsBoth ==
    /\ JsonLoad(mfile[1]) # <<>>
    /\ \A u \in URLs :
          manifest.items[u] # itemsAtStart[u] => LoadFile(mfile).items[u] = manifest.items[u]
    /\ FrontEndBetween =>
          \A u \in deleting[1].gone : manifest.items[u] = itemsAtStart[u] => ~OnFile(mfile, u)
    /\ PeerBetween =>
          \A u \in URLs :
              (peer[1].new[u] # <<>> /\ manifest.items[u] = itemsAtStart[u])
                  => LoadFile(mfile).items[u] = peer[1].new[u]

\* C34: no lost update on the manifest file. When the front end's
\* _manifest_remove_entry_by_filename or a second sync run has written the
\* manifest between a run's load_manifest and its save_manifest, the file
\* after the run's save reflects both writers' changes: an entry the front
\* end removed is not in it unless the run re-created it, and a record the
\* second run wrote is in it unless the run wrote that record itself.
C34_NoLostUpdate ==
    [][ (pc = "AllItems" /\ pc' = "done" /\ (FrontEndBetween \/ PeerBetween)) => ReflectsBoth' ]_vars

====
